---- MODULE Spec2Model ----
(***************************************************************************)
(* Model of the card rendering engine of bili-dynamic-spider:              *)
(*   src/src/painter.rs  PicGenerator, draw_content_image, paste_image,    *)
(*                       paste_image_with_alpha                            *)
(*   src/src/main.rs     draw_dynamic, draw_content,                       *)
(*                       download_dynamic_images                           *)
(*                                                                         *)
(* The module holds one state machine per component.  Each specification   *)
(* starts the other components in their idle state and leaves them alone.  *)
(***************************************************************************)
EXTENDS Integers, Sequences, FiniteSets, TLC

(***************************************************************************)
(* Bounds of the model                                                     *)
(***************************************************************************)
\* items (characters of text nodes + image nodes) one layout run consumes
MaxItems == 4
\* nodes one layout run consumes
MaxNodes == 3
\* characters of the text compared with its stripped form
MaxStripLen == 3
\* largest x and y an overlay is pasted at
MaxOffset == 2
\* picture definitions of one post
MaxPics == 3
\* '\n' characters of the text of a rendered post
MaxNewlines == 198
\* pictures of a rendered post
MaxRenderPics == 6
\* largest side of the small decoded images the tiler is run on
MaxSide == 4
\* operations applied to one PicGenerator
MaxOps == 3
\* largest width and height of the input of create_circular_image
MaxInputSide == 5
\* largest diameter of create_circular_image
MaxDiameter == 5
\* requests for new dynamics one run_target task makes
MaxPolls == 1

(***************************************************************************)
(* Program constants                                                       *)
(***************************************************************************)
NEWLINE == 10
ZWSP == 8203
VS16 == 65039
LineHeight == 40
EmojiNodeSize == 30
IconSize == 40
EmojiScale == 25
ImageAreaWidth == 740
ImageMargin == 10

\* line_max_width values the layout is run with: 35 is narrower than an icon
LineWidths == {35, 60}

\* the characters texts are built from: newline, zero-width space, variation
\* selectors 16 and 1, 'a', U+4F60 and U+1F600
PlainChars == {97, 20320}
EmojiChars == {65024, VS16, 128512}
LayoutChars == {NEWLINE, ZWSP, VS16} \cup PlainChars \cup {128512}
StripChars == {NEWLINE, ZWSP, VS16, 65024, 97, 128512}

IconKinds == {"Web", "Bv", "Lottery", "Vote", "Goods"}
ImageKinds == IconKinds \cup {"Emoji"}

\* what resource.emoji_font offers for a character: a PNG raster glyph, a
\* raster glyph glyph_to_rgba rejects, or no raster glyph
GlyphOutcomes == {"png", "unsupported", "none"}
EmojiFonts == [EmojiChars -> GlyphOutcomes]
\* the fonts that differ on the emoji character of LayoutChars
LayoutFonts == {f \in EmojiFonts : f[65024] = "none" /\ f[VS16] = "none"}

SeqsUpTo(S, n) == UNION {[1..k -> S] : k \in 0..n}

CountChar(s, c) == Cardinality({i \in 1..Len(s) : s[i] = c})

(***************************************************************************)
(* painter.rs: helpers of draw_content_image                               *)
(***************************************************************************)
InRange(c, lo, hi) == lo <= c /\ c <= hi

is_emoji(code) ==
    \/ InRange(code, 128512, 128591)   \* 0x1F600..=0x1F64F
    \/ InRange(code, 127744, 128511)   \* 0x1F300..=0x1F5FF
    \/ InRange(code, 128640, 128767)   \* 0x1F680..=0x1F6FF
    \/ InRange(code, 9728, 9983)       \* 0x2600..=0x26FF
    \/ InRange(code, 9984, 10175)      \* 0x2700..=0x27BF
    \/ InRange(code, 65024, 65039)     \* 0xFE00..=0xFE0F
    \/ InRange(code, 129280, 129535)   \* 0x1F900..=0x1F9FF
    \/ InRange(code, 127462, 127487)   \* 0x1F1E6..=0x1F1FF

IsCleaned(c) == c \notin {ZWSP, VS16}

clean_zero_width_only(s) == SelectSeq(s, LAMBDA c : c # ZWSP)

clean_special_chars(s) == SelectSeq(s, IsCleaned)

\* imageproc::drawing::text_size(text_scale, text_normal_font, c).0 for the
\* plain characters of the model: a half-width and a full-width glyph
text_size(c) == IF c = 97 THEN 15 ELSE 30

\* RgbaImage::new(line_max_width, 40): nothing drawn on it
NewLineImage(lmw) == [width |-> lmw, height |-> LineHeight, items |-> <<>>]

\* what a paste or a text draw puts on a line image: the source drawn, the
\* position it is drawn at and its size
Placed(src, px, py, w, h) == [src |-> src, x |-> px, y |-> py, w |-> w, h |-> h]

\* images.push(std::mem::replace(&mut current_image, new)); x = 0; y = 0
PushLine(s, lmw) ==
    [s EXCEPT !.images = Append(@, s.cur), !.cur = NewLineImage(lmw),
              !.x = 0, !.y = 0]

Draw(s, src, w, h) ==
    [s EXCEPT !.cur.items = Append(@, Placed(src, s.x, s.y, w, h))]

NewlineStepKeepEmpty(s, lmw) ==
    IF s.cur.items = <<>> THEN [s EXCEPT !.x = 0, !.y = 0] ELSE PushLine(s, lmw)

\* the branch of the character loop for c == '\n'
NewlineStep(s, lmw) == PushLine(s, lmw)

\* the branch for an emoji character: no width check, skipped without a
\* usable raster glyph
EmojiCharStep(s, c, font) ==
    IF font[c] = "png"
    THEN [Draw(s, <<"emoji_char", c>>, EmojiScale, EmojiScale)
            EXCEPT !.x = @ + EmojiScale]
    ELSE s

\* the branch for a plain character
PlainCharStep(s, c, lmw) ==
    LET cwidth == text_size(c)
        wrap == s.x + cwidth > lmw
        s1 == IF wrap THEN [PushLine(s, lmw) EXCEPT !.wraps = @ + 1] ELSE s
    IN  [Draw(s1, <<"char", c>>, cwidth, LineHeight) EXCEPT !.x = @ + cwidth]

\* one iteration of `for c in clean_special_chars(text).chars()`
CharStep(s, c, lmw, font) ==
    IF c = NEWLINE THEN NewlineStep(s, lmw)
    ELSE IF is_emoji(c) THEN EmojiCharStep(s, c, font)
    ELSE PlainCharStep(s, c, lmw)

ResizedWidth(kind) == IF kind = "Emoji" THEN EmojiNodeSize ELSE IconSize

\* the body of the node loop for an Emoji or icon node: x stays where it is
\* after the paste
ImageStep(s, kind, lmw) ==
    LET image_width == ResizedWidth(kind)
        wrap == s.x + image_width > lmw
        s1 == IF wrap THEN [PushLine(s, lmw) EXCEPT !.wraps = @ + 1] ELSE s
    IN  Draw(s1, <<"image", kind>>, image_width, image_width)

FinishImagesNonEmpty(s) ==
    IF s.cur.items = <<>> THEN s.images ELSE Append(s.images, s.cur)

\* images.push(current_image); images
FinishImages(s) == Append(s.images, s.cur)

\* let mut images = Vec::new(); let mut current_image = ...; (x, y) = (0, 0)
\* wraps counts the lines started by a width check
LayoutStart(lmw) ==
    [images |-> <<>>, cur |-> NewLineImage(lmw), x |-> 0, y |-> 0, wraps |-> 0]

RECURSIVE TextLoop(_, _, _, _)
\* the character loop, split in halves to keep the evaluation shallow
TextLoop(s, cs, lmw, font) ==
    IF cs = <<>> THEN s
    ELSE IF Len(cs) = 1 THEN CharStep(s, cs[1], lmw, font)
    ELSE LET h == Len(cs) \div 2
             mid == TextLoop(s, SubSeq(cs, 1, h), lmw, font)
         IN  \* the first half is evaluated before the second starts
             IF mid.x >= 0 THEN TextLoop(mid, SubSeq(cs, h + 1, Len(cs)), lmw, font)
             ELSE mid

NodeStep(s, node, lmw, font) ==
    IF node.kind = "Text"
    THEN TextLoop(s, clean_special_chars(node.text), lmw, font)
    ELSE ImageStep(s, node.kind, lmw)

RECURSIVE NodeLoop(_, _, _, _)
NodeLoop(s, ns, lmw, font) ==
    IF ns = <<>> THEN s
    ELSE NodeLoop(NodeStep(s, Head(ns), lmw, font), Tail(ns), lmw, font)

\* draw_content_image(nodes, line_max_width, TEXT_SCALE, EMOJI_SCALE, resource)
draw_content_image(nodes, lmw, font) ==
    FinishImages(NodeLoop(LayoutStart(lmw), nodes, lmw, font))

(***************************************************************************)
(* f32 arithmetic of paste_image_with_alpha.  A finite non-negative f32 is *)
(* [m, e] with value m * 2^e and either m = 0 or 2^23 <= m < 2^24; NaN is  *)
(* the result of 0.0 / 0.0.  Every operation rounds to nearest, ties to    *)
(* even, as the hardware does.  Intermediate integers stay below 2^31.     *)
(***************************************************************************)
FZero == [m |-> 0, e |-> 0]
FNaN == [m |-> -1, e |-> 0]
FInf == [m |-> -2, e |-> 0]

RECURSIVE NormUp(_, _)
NormUp(m, e) == IF m >= 2^23 THEN [m |-> m, e |-> e] ELSE NormUp(2 * m, e - 1)

RECURSIVE ShiftOf(_, _)
\* the k with 2^23 <= d \div 2^k < 2^24, for d >= 2^23
ShiftOf(d, k) == IF d \div 2^k < 2^24 THEN k ELSE ShiftOf(d, k + 1)

\* the f32 nearest to (d + f) * 2^e, where 0 <= d < 2^28 and f is a fraction
\* in (0, 1) when sticky and 0 otherwise
RoundNorm(d, sticky, e) ==
    IF d = 0 THEN FZero
    ELSE IF d < 2^23 THEN NormUp(d, e)
    ELSE LET k == ShiftOf(d, 0)
             q == d \div 2^k
             r == d % 2^k
             half == IF k = 0 THEN 1 ELSE 2^(k - 1)
             up == k > 0 /\ (r > half \/ (r = half /\ (sticky \/ q % 2 = 1)))
             q1 == IF up THEN q + 1 ELSE q
         IN  IF q1 = 2^24 THEN [m |-> 2^23, e |-> e + k + 1]
             ELSE [m |-> q1, e |-> e + k]

\* `v as f32` for a u8
FromU8(v) == IF v = 0 THEN FZero ELSE NormUp(v, 0)

F1 == FromU8(1)
F255 == FromU8(255)

FMul(a, b) ==
    IF a.m = 0 \/ b.m = 0 THEN FZero
    ELSE LET ah == a.m \div 4096
             al == a.m % 4096
             bh == b.m \div 4096
             bl == b.m % 4096
             mid == ah * bl + al * bh
             losum == al * bl + (mid % 4096) * 4096
             hi == ah * bh + mid \div 4096 + losum \div 2^24
             lo == losum % 2^24
         IN  RoundNorm(hi * 16 + lo \div 2^20, lo % 2^20 # 0, a.e + b.e + 20)

RECURSIVE LongDiv(_, _, _, _)
\* k more quotient bits of r / d
LongDiv(q, r, d, k) ==
    IF k = 0 THEN <<q, r>>
    ELSE IF 2 * r >= d THEN LongDiv(2 * q + 1, 2 * r - d, d, k - 1)
    ELSE LongDiv(2 * q, 2 * r, d, k - 1)

FDiv(a, b) ==
    IF b.m = 0 THEN (IF a.m = 0 THEN FNaN ELSE FInf)
    ELSE IF a.m = 0 THEN FZero
    ELSE LET qr == LongDiv(a.m \div b.m, a.m % b.m, b.m, 27)
         IN  RoundNorm(qr[1], qr[2] # 0, a.e - b.e - 27)

\* a + b for a, b >= 0
FAdd(a, b) ==
    IF a.m = 0 THEN b
    ELSE IF b.m = 0 THEN a
    ELSE LET big == IF a.e >= b.e THEN a ELSE b
             small == IF a.e >= b.e THEN b ELSE a
             d == big.e - small.e
         IN  IF d >= 26 THEN big
             ELSE RoundNorm(big.m * 8 + (small.m * 8) \div 2^d,
                            (small.m * 8) % 2^d # 0, big.e - 3)

\* a - b for a >= b >= 0
FSub(a, b) ==
    IF b.m = 0 THEN a
    ELSE LET d == a.e - b.e
             whole == (b.m * 8) \div 2^d
             sticky == (b.m * 8) % 2^d # 0
         IN  IF d >= 28 THEN a
             ELSE RoundNorm(a.m * 8 - whole - (IF sticky THEN 1 ELSE 0),
                            sticky, a.e - 3)

\* `v as u8` for an f32: truncation, saturating, NaN to 0
ToU8(f) ==
    IF f.m = -1 THEN 0
    ELSE IF f.m = -2 THEN 255
    ELSE IF f.m = 0 THEN 0
    ELSE IF f.e >= 0 THEN 255
    ELSE IF -f.e >= 24 THEN 0
    ELSE IF f.m \div 2^(-f.e) > 255 THEN 255
    ELSE f.m \div 2^(-f.e)

\* `v as f32` for a u32 below 2^24
FromU32(v) == IF v = 0 THEN FZero ELSE NormUp(v, 0)

\* f32::min(a, b) for finite a, b >= 0
FMin(a, b) ==
    IF a.m = 0 THEN a
    ELSE IF b.m = 0 THEN b
    ELSE IF a.e < b.e \/ (a.e = b.e /\ a.m <= b.m) THEN a
    ELSE b

\* `v as u32` for a finite f32 >= 0 below 2^31: truncation
ToU32(f) ==
    IF f.m = 0 THEN 0
    ELSE IF f.e >= 0 THEN f.m * 2^f.e
    ELSE IF -f.e >= 24 THEN 0
    ELSE f.m \div 2^(-f.e)

(***************************************************************************)
(* painter.rs: paste_image and paste_image_with_alpha.  An RgbaImage is    *)
(* [width, height, px] with px[<<cx, cy>>] the pixel <<r, g, b, a>>.       *)
(***************************************************************************)
Coords(w, h) == (0..(w - 1)) \X (0..(h - 1))

put_pixel(img, cx, cy, pixel) == [img EXCEPT !.px[<<cx, cy>>] = pixel]

blend_color_uncomplemented(overlay, base, overlay_alpha, base_alpha, out_alpha) ==
    ToU8(FDiv(FAdd(FMul(FromU8(overlay), overlay_alpha),
                   FMul(FromU8(base), base_alpha)),
              out_alpha))

\* the closure blend_color
blend_color(overlay, base, overlay_alpha, base_alpha, out_alpha) ==
    ToU8(FDiv(FAdd(FMul(FromU8(overlay), overlay_alpha),
                   FMul(FMul(FromU8(base), base_alpha), FSub(F1, overlay_alpha))),
              out_alpha))

\* blended_pixel of one loop iteration of paste_image_with_alpha
blended_pixel(overlay_pixel, base_pixel) ==
    LET overlay_alpha == FDiv(FromU8(overlay_pixel[4]), F255)
        base_alpha == FDiv(FromU8(base_pixel[4]), F255)
        out_alpha == FAdd(overlay_alpha, FMul(base_alpha, FSub(F1, overlay_alpha)))
    IN  << blend_color(overlay_pixel[1], base_pixel[1], overlay_alpha, base_alpha, out_alpha),
           blend_color(overlay_pixel[2], base_pixel[2], overlay_alpha, base_alpha, out_alpha),
           blend_color(overlay_pixel[3], base_pixel[3], overlay_alpha, base_alpha, out_alpha),
           ToU8(FMul(out_alpha, F255)) >>

PasteOpaquePixelAnyAlpha(base_image, overlay_image, px, py, i) ==
    LET overlay_x == i % overlay_image.width
        overlay_y == i \div overlay_image.width
        base_x == px + overlay_x
        base_y == py + overlay_y
    IN  IF base_x < base_image.width /\ base_y < base_image.height
        THEN put_pixel(base_image, base_x, base_y,
                       overlay_image.px[<<overlay_x, overlay_y>>])
        ELSE base_image

\* one iteration of the loop of paste_image, for overlay pixel number i of
\* enumerate_pixels (row by row)
PasteOpaquePixel(base_image, overlay_image, px, py, i) ==
    LET overlay_x == i % overlay_image.width
        overlay_y == i \div overlay_image.width
        pixel == overlay_image.px[<<overlay_x, overlay_y>>]
        base_x == px + overlay_x
        base_y == py + overlay_y
    IN  IF base_x < base_image.width /\ base_y < base_image.height /\ pixel[4] > 0
        THEN put_pixel(base_image, base_x, base_y, pixel)
        ELSE base_image

\* one iteration of the loop of paste_image_with_alpha
PasteAlphaPixel(base_image, overlay_image, px, py, i) ==
    LET overlay_x == i % overlay_image.width
        overlay_y == i \div overlay_image.width
        overlay_pixel == overlay_image.px[<<overlay_x, overlay_y>>]
        base_x == px + overlay_x
        base_y == py + overlay_y
    IN  IF base_x < base_image.width /\ base_y < base_image.height
        THEN put_pixel(base_image, base_x, base_y,
                       blended_pixel(overlay_pixel, base_image.px[<<base_x, base_y>>]))
        ELSE base_image

RECURSIVE PasteOpaqueLoop(_, _, _, _, _)
PasteOpaqueLoop(base_image, overlay_image, px, py, i) ==
    IF i = overlay_image.width * overlay_image.height THEN base_image
    ELSE PasteOpaqueLoop(PasteOpaquePixel(base_image, overlay_image, px, py, i),
                         overlay_image, px, py, i + 1)

RECURSIVE PasteAlphaLoop(_, _, _, _, _)
PasteAlphaLoop(base_image, overlay_image, px, py, i) ==
    IF i = overlay_image.width * overlay_image.height THEN base_image
    ELSE PasteAlphaLoop(PasteAlphaPixel(base_image, overlay_image, px, py, i),
                        overlay_image, px, py, i + 1)

paste_image(base_image, overlay_image, px, py) ==
    PasteOpaqueLoop(base_image, overlay_image, px, py, 0)

paste_image_with_alpha(base_image, overlay_image, px, py) ==
    PasteAlphaLoop(base_image, overlay_image, px, py, 0)

(***************************************************************************)
(* painter.rs: create_circular_image                                       *)
(***************************************************************************)
is_point_in_bounding_box(x, y, center, radius) ==
    LET dx == x - center[1]
        dy == y - center[2]
    IN  dx * dx <= radius * radius /\ dy * dy <= radius * radius

is_point_in_circle(x, y, center, radius) ==
    LET dx == x - center[1]
        dy == y - center[2]
    IN  dx * dx + dy * dy <= radius * radius

\* RgbaImage::from_pixel(diameter, diameter, Rgba([0, 0, 0, 0]))
TransparentSquare(diameter) ==
    [width |-> diameter, height |-> diameter,
     px |-> [c \in Coords(diameter, diameter) |-> <<0, 0, 0, 0>>]]

\* the scaling factor
circle_scale(orig_width, orig_height, diameter) ==
    FMin(FDiv(FromU32(diameter), FromU32(orig_width)),
         FDiv(FromU32(diameter), FromU32(orig_height)))

\* the size of resized_image
circle_resized_size(orig_width, orig_height, diameter) ==
    LET scale == circle_scale(orig_width, orig_height, diameter)
    IN  << ToU32(FMul(FromU32(orig_width), scale)),
           ToU32(FMul(FromU32(orig_height), scale)) >>

\* the pixel (x, y) of the resized image of an input that is opaque
\* everywhere, or opaque and half transparent in turn
resized_pixel(pattern, x, y) ==
    IF pattern = "opaque" \/ (x + y) % 2 = 0 THEN <<200, 100, 50, 255>>
    ELSE <<20, 40, 60, 128>>

(***************************************************************************)
(* main.rs: download_dynamic_images.  A picture definition is              *)
(* [valid, height, width, fetch, img]: whether url, height and width are   *)
(* all present, the declared size, whether download_image succeeds and the *)
(* size <<width, height>> of the decoded image.                            *)
(***************************************************************************)
Min(a, b) == IF a <= b THEN a ELSE b

num_pictures_in_line(num_pictures) ==
    CASE num_pictures = 1 -> 1
      [] num_pictures \in {2, 4} -> 2
      [] OTHER -> 3

picture_square_size(num_pictures, image_area_width, image_margin) ==
    CASE num_pictures = 1 -> image_area_width - image_margin * 2
      [] num_pictures \in {2, 4} -> (image_area_width - image_margin * 3) \div 2
      [] OTHER -> (image_area_width - image_margin * 4) \div 3

\* (a as f64 / b as f64).round() as u32 for a >= 0, b > 0
RoundDiv(a, b) == (2 * a + b) \div (2 * b)

\* the suffix of the url requested for a picture
UrlSuffix(pic, in_line) ==
    IF in_line = 1 THEN "518w"
    ELSE IF pic.height >= 3 * pic.width THEN "header"
    ELSE "1e_1c"

\* imageops::crop_imm(image, cx, cy, w, h).to_image(): the rectangle is
\* clamped to the image
crop_imm(iw, ih, cx, cy, w, h) ==
    LET x0 == Min(cx, iw)
        y0 == Min(cy, ih)
    IN  [x |-> x0, y |-> y0, width |-> Min(w, iw - x0), height |-> Min(h, ih - y0)]

TileOf(crop, nwidth, nheight, src) ==
    [width |-> crop.width, height |-> crop.height, src |-> src,
     resized |-> <<nwidth, nheight>>, crop |-> <<crop.x, crop.y>>]

WiderTileUncentred(img, size, src) ==
    LET nheight == size
        nwidth == RoundDiv(size * img[1], img[2])
    IN  TileOf(crop_imm(nwidth, nheight, nwidth - size, 0, size, size),
               nwidth, nheight, src)

\* cmp::Ordering::Less: height < width
WiderTile(img, size, src) ==
    LET nheight == size
        nwidth == RoundDiv(size * img[1], img[2])
    IN  TileOf(crop_imm(nwidth, nheight, (nwidth - size) \div 2, 0, size, size),
               nwidth, nheight, src)

LongerTileSwapped(img, size, src) ==
    LET nwidth == size
        nheight == RoundDiv(size * img[1], img[2])
    IN  TileOf(crop_imm(nwidth, nheight, 0, (nheight - size) \div 2, size, size),
               nwidth, nheight, src)

\* cmp::Ordering::Greater: height > width
LongerTile(img, size, src) ==
    LET nwidth == size
        nheight == RoundDiv(size * img[2], img[1])
    IN  TileOf(crop_imm(nwidth, nheight, 0, (nheight - size) \div 2, size, size),
               nwidth, nheight, src)

\* cmp::Ordering::Equal
SquareTile(img, size, src) ==
    [width |-> size, height |-> size, src |-> src,
     resized |-> <<size, size>>, crop |-> <<0, 0>>]

\* resized_image for the decoded image of picture number src
resized_image(img, size, src) ==
    IF img[2] = img[1] THEN SquareTile(img, size, src)
    ELSE IF img[2] < img[1] THEN WiderTile(img, size, src)
    ELSE LongerTile(img, size, src)

\* the first loop: one download per well-formed picture definition
RECURSIVE BuildSet(_, _, _)
BuildSet(pics, i, in_line) ==
    IF i > Len(pics) THEN <<>>
    ELSE IF pics[i].valid
    THEN <<[src |-> i, url |-> UrlSuffix(pics[i], in_line), fetch |-> pics[i].fetch,
            img |-> pics[i].img]>> \o BuildSet(pics, i + 1, in_line)
    ELSE BuildSet(pics, i + 1, in_line)

ResultStepAbort(images, res, size) ==
    IF res.fetch = "ok" THEN Append(images, resized_image(res.img, size, res.src))
    ELSE <<>>

\* one iteration of `for result in results`
ResultStep(images, res, size) ==
    IF res.fetch = "ok" THEN Append(images, resized_image(res.img, size, res.src))
    ELSE images

RECURSIVE ResultLoop(_, _, _)
ResultLoop(images, results, size) ==
    IF results = <<>> THEN images
    ELSE ResultLoop(ResultStep(images, Head(results), size), Tail(results), size)

download_dynamic_images(pics, image_area_width, image_margin) ==
    ResultLoop(<<>>,
               BuildSet(pics, 1, num_pictures_in_line(Len(pics))),
               picture_square_size(Len(pics), image_area_width, image_margin))

(***************************************************************************)
(* painter.rs: PicGenerator.  The buffer is kept as its size and the list  *)
(* of what was drawn on it: <<operation, x, y, width, height>>.  panicked  *)
(* and wrapped record a panic and a u32 subtraction that went below zero.  *)
(***************************************************************************)
None == <<"None">>
Some(px, py) == <<"Some", px, py>>

\* PicGenerator::new
new(width, height) ==
    [width |-> width, height |-> height, x |-> 0, y |-> 0, row_space |-> 25,
     drawn |-> <<>>, panicked |-> FALSE, wrapped |-> FALSE]

set_pos(g, px, py) == [g EXCEPT !.x = px, !.y = py]
set_x(g, px) == [g EXCEPT !.x = px]
set_y(g, py) == [g EXCEPT !.y = py]
set_row_space(g, rs) == [g EXCEPT !.row_space = rs]

Drawn(g, op, px, py, w, h) == [g EXCEPT !.drawn = Append(@, <<op, px, py, w, h>>)]

draw_img(g, img, xy) ==
    IF xy # None
    THEN Drawn(g, "paste_image", xy[2], xy[3], img.width, img.height)
    ELSE [Drawn(g, "paste_image", g.x, g.y, img.width, img.height)
            EXCEPT !.y = @ + img.height + g.row_space]

draw_img_alpha_no_row_space(g, img, xy) ==
    IF xy # None
    THEN Drawn(g, "paste_image_with_alpha", xy[2], xy[3], img.width, img.height)
    ELSE [Drawn(g, "paste_image_with_alpha", g.x, g.y, img.width, img.height)
            EXCEPT !.y = @ + img.height]

draw_img_alpha(g, img, xy) ==
    IF xy # None
    THEN Drawn(g, "paste_image_with_alpha", xy[2], xy[3], img.width, img.height)
    ELSE [Drawn(g, "paste_image_with_alpha", g.x, g.y, img.width, img.height)
            EXCEPT !.y = @ + img.height + g.row_space]

\* colors.get(i).copied().unwrap_or(Rgba::<u8>::black()), for i from 1
ColorOf(colors, i) == IF i <= Len(colors) THEN colors[i] ELSE "BLACK"

RECURSIVE DrawTexts(_, _, _, _, _, _, _)
\* the loop of draw_text from text i on, over the measured sizes <<tw, th>>
\* of the texts: the text is drawn at (cx, cy) in its colour
DrawTexts(g, sizes, colors, i, cx, cy, text_height) ==
    IF i > Len(sizes) THEN <<g, text_height, cx>>
    ELSE DrawTexts([g EXCEPT !.drawn = Append(@, <<"draw_text", cx, cy, sizes[i][1],
                                                   sizes[i][2], ColorOf(colors, i)>>)],
                   sizes, colors, i + 1, cx + sizes[i][1], cy,
                   IF text_height < sizes[i][2] THEN sizes[i][2] ELSE text_height)

draw_text_moving_x(g, sizes, colors, xy) ==
    LET cx == IF xy # None THEN xy[2] ELSE g.x
        cy == IF xy # None THEN xy[3] ELSE g.y
        r == DrawTexts(g, sizes, colors, 1, cx, cy, 0)
    IN  IF xy = None
        THEN [r[1] EXCEPT !.x = r[3], !.y = @ + r[2] + g.row_space]
        ELSE r[1]

draw_text(g, sizes, colors, xy) ==
    LET cx == IF xy # None THEN xy[2] ELSE g.x
        cy == IF xy # None THEN xy[3] ELSE g.y
        r == DrawTexts(g, sizes, colors, 1, cx, cy, 0)
    IN  IF xy = None
        THEN [r[1] EXCEPT !.y = @ + r[2] + g.row_space]
        ELSE r[1]

draw_rectangle_moving(g, px, py, height, width) ==
    IF width = 0 \/ height = 0 THEN [g EXCEPT !.panicked = TRUE]
    ELSE [Drawn(g, "draw_filled_rect", px, py, width, height) EXCEPT !.y = py + height]

\* Rect::at(x, y).of_size(width, height) asserts width > 0 and height > 0
draw_rectangle(g, px, py, height, width) ==
    IF width = 0 \/ height = 0 THEN [g EXCEPT !.panicked = TRUE]
    ELSE Drawn(g, "draw_filled_rect", px, py, width, height)

crop_bottom_unclamped(g) == [g EXCEPT !.height = g.y]

\* imageops::crop_imm(&self.image, 0, 0, self.image.width(), self.y)
crop_bottom(g) ==
    [g EXCEPT !.height = crop_imm(g.width, g.height, 0, 0, g.width, g.y).height]

(***************************************************************************)
(* main.rs: draw_dynamic and draw_content                                  *)
(***************************************************************************)
CanvasWidth == 740
CanvasHeight == 10000

\* draw_dynamic up to the call of draw_content; name and ts are the measured
\* sizes of the user name and of the formatted timestamp
DrawHeader(vip, name, ts) ==
    LET g0 == draw_rectangle(new(CanvasWidth, CanvasHeight), 0, 0, CanvasHeight, CanvasWidth)
        g1 == draw_img_alpha(g0, [width |-> 100, height |-> 100], Some(50, 50))
        g2 == IF vip THEN draw_img_alpha(g1, [width |-> 40, height |-> 40], Some(118, 118))
              ELSE g1
        g3 == set_pos(g2, 175, 60)
        g4 == draw_text(g3, <<name>>, <<IF vip THEN "PINK" ELSE "BLACK">>, None)
        g5 == draw_text(g4, <<ts>>, <<"GRAY">>, None)
    IN  set_row_space(set_x(g5, 25), 10)

\* Content::Forward after its text: the grey background of the original and
\* the @author line.  height - y is a u32 subtraction: below zero it panics
\* in a build with overflow checks and wraps in one without, where the
\* rectangle then lies outside the buffer and nothing is filled
ForwardBackground(g, at, overflow_checks) ==
    LET py == g.y
        g1 == IF py > g.height
              THEN (IF overflow_checks THEN [g EXCEPT !.panicked = TRUE]
                    ELSE [g EXCEPT !.wrapped = TRUE])
              ELSE draw_rectangle(g, 0, py, g.height - py, g.width)
    IN  IF g1.panicked THEN g1 ELSE draw_text(g1, <<at>>, <<"DEEP_BLUE">>, None)

num_pics_per_line_two_or_three(len) ==
    CASE len = 1 -> 1
      [] len = 2 -> 2
      [] OTHER -> 3

\* Content::Draw: `let num_pics_per_line = match pics.len()`
num_pics_per_line(len) ==
    CASE len = 1 -> 1
      [] len \in {2, 4} -> 2
      [] OTHER -> 3

\* one iteration of the inner loop of Content::Draw, for picture i (from 0)
\* of a row of n pictures; loc is the local (x, y)
DrawPic(g, loc, img, i, n) ==
    LET g1 == draw_img(g, img, Some(loc[1], loc[2]))
        x1 == loc[1] + img.width + 10
        g2 == set_x(g1, x1)
    IN  IF i = n - 1
        THEN <<set_x(set_y(g2, loc[2] + img.height + 10), 10),
               <<10, loc[2] + img.height + 10>>>>
        ELSE <<g2, <<x1, loc[2]>>>>

(***************************************************************************)
(* State                                                                   *)
(***************************************************************************)
VARIABLES
    lpc,             \* draw_content_image: "idle", "node", "text", "done"
    line_max_width,  \* its argument
    emoji_font,      \* resource.emoji_font
    lay,             \* images, current_image, x, y (and the wrap counter)
    chars,           \* the characters of the text node still to lay out
    consumed,        \* items consumed so far
    nnodes,          \* nodes consumed so far
    input_newlines,  \* '\n' characters of the text nodes consumed so far
    last,            \* the item the last step handled
    result,          \* the returned Vec<RgbaImage>
    spc,             \* text comparison: "idle", "ready", "drawn", "done"
    stext,           \* the text of the single Text node
    out_text,        \* draw_content_image of the text
    out_removed,     \* draw_content_image of the text without special characters
    ppc,             \* paste: "idle", "ready", "opaque", "alpha"
    base_image,      \* the base image before the paste
    overlay_image,   \* the overlay
    paste_xy,        \* the (x, y) the overlay is pasted at
    pasted,          \* the base image after the paste
    tpc,             \* download_dynamic_images: "idle", "start", "results", "done"
    pictures,        \* its argument
    pic_results,     \* the results of join_all still to handle
    pic_images,      \* images, returned at the end
    rpc,             \* draw_dynamic: "idle", "start", "content", "lines",
                     \* "pics", "crop", "done", "panicked"
    dynamic,         \* its argument, with the measured sizes of its texts
    overflow_checks, \* whether the build panics on integer overflow
    generator,       \* the PicGenerator
    content,         \* the content draw_content is drawing
    text_images,     \* the line images still to draw
    pic_loc,         \* the local (x, y) of the picture grid
    pic_idx,         \* the number of pictures drawn
    cpc,             \* a PicGenerator in use: "idle", "ready", "panicked", "returned"
    canvas,          \* the PicGenerator
    canvas_before,   \* the PicGenerator before its last operation
    canvas_ops,      \* the operations applied to it since new
    canvas_alloc,    \* the <<width, height>> it was created with
    kpc,             \* create_circular_image: "idle", "start", "pixels", "done",
                     \* "panicked"
    input_image,     \* its argument: width, height and what its pixels are
    diameter,        \* its argument
    resized_size,    \* the <<width, height>> of resized_image
    circle_offset,   \* <<x_offset, y_offset>>
    circle_i,        \* the pixels of resized_image handled so far
    circular_image,  \* the image returned at the end
    target,          \* main: the configured targets
    spawned,         \* the targets a run_target task was spawned for
    db,              \* the sled database: tree name -> dynamic id -> DbEntry
    target_set,      \* the run_target tasks, one record per spawned target
    sent_messages,   \* <<task, dynamic id>> -> the times send_qq_message returned Ok
    relay_sent,      \* <<task, dynamic id>> -> the times the relay answered
                     \* sendFriendMessage with code 0
    healthy,         \* the source API and the relay answer successfully from now on
    tree_readers,    \* tree name -> the tasks that read the tree
    tree_writers,    \* tree name -> the tasks that wrote the tree
    bpc,             \* build_text_nodes: "idle", "start", "nodes", "done", "panicked"
    title,           \* its argument: None or Some(text)
    raw_text_nodes,  \* its argument, with the outcome of each emoji fetch
    node_i,          \* the nodes handled so far
    res,             \* the Vec<TextNode> built so far
    qpc,             \* send_qq_message: "idle", "verify", "bind", "send",
                     \* "release", "returned"
    relay_answers,   \* what the relay answers to each of the four requests
    session_key,     \* verify_response.session, None before
    relay_log,       \* the requests the relay has received
    send_result      \* the value send_qq_message returned

layoutVars ==
    <<lpc, line_max_width, emoji_font, lay, chars, consumed, nnodes,
      input_newlines, last, result>>

stripVars == <<spc, stext, out_text, out_removed>>

pasteVars == <<ppc, base_image, overlay_image, paste_xy, pasted>>

tilerVars == <<tpc, pictures, pic_results, pic_images>>

renderVars ==
    <<rpc, dynamic, overflow_checks, generator, content, text_images, pic_loc, pic_idx>>

canvasVars == <<cpc, canvas, canvas_before, canvas_ops, canvas_alloc>>

circleVars ==
    <<kpc, input_image, diameter, resized_size, circle_offset, circle_i, circular_image>>

targetVars ==
    <<target, spawned, db, target_set, sent_messages, relay_sent, healthy,
      tree_readers, tree_writers>>

nodesVars == <<bpc, title, raw_text_nodes, node_i, res>>

relayVars == <<qpc, relay_answers, session_key, relay_log, send_result>>

vars ==
    <<layoutVars, stripVars, pasteVars, tilerVars, renderVars, canvasVars,
      circleVars, targetVars, nodesVars, relayVars>>

\* what the steps of one component leave alone
exceptLayout ==
    <<stripVars, pasteVars, tilerVars, renderVars, canvasVars,
      circleVars, targetVars, nodesVars, relayVars>>
exceptStrip ==
    <<layoutVars, pasteVars, tilerVars, renderVars, canvasVars,
      circleVars, targetVars, nodesVars, relayVars>>
exceptPaste ==
    <<layoutVars, stripVars, tilerVars, renderVars, canvasVars,
      circleVars, targetVars, nodesVars, relayVars>>
exceptTiler ==
    <<layoutVars, stripVars, pasteVars, renderVars, canvasVars,
      circleVars, targetVars, nodesVars, relayVars>>
exceptRender ==
    <<layoutVars, stripVars, pasteVars, tilerVars, canvasVars,
      circleVars, targetVars, nodesVars, relayVars>>
exceptCanvas ==
    <<layoutVars, stripVars, pasteVars, tilerVars, renderVars,
      circleVars, targetVars, nodesVars, relayVars>>
exceptCircle ==
    <<layoutVars, stripVars, pasteVars, tilerVars, renderVars,
      canvasVars, targetVars, nodesVars, relayVars>>
exceptTarget ==
    <<layoutVars, stripVars, pasteVars, tilerVars, renderVars,
      canvasVars, circleVars, nodesVars, relayVars>>
exceptNodes ==
    <<layoutVars, stripVars, pasteVars, tilerVars, renderVars,
      canvasVars, circleVars, targetVars, relayVars>>
exceptRelay ==
    <<layoutVars, stripVars, pasteVars, tilerVars, renderVars,
      canvasVars, circleVars, targetVars, nodesVars>>

LayoutIdle ==
    /\ lpc = "idle"
    /\ line_max_width = 0
    /\ emoji_font = [c \in EmojiChars |-> "none"]
    /\ lay = LayoutStart(0)
    /\ chars = <<>>
    /\ consumed = 0
    /\ nnodes = 0
    /\ input_newlines = 0
    /\ last = <<"none">>
    /\ result = <<>>

StripIdle ==
    /\ spc = "idle"
    /\ stext = <<>>
    /\ out_text = <<>>
    /\ out_removed = <<>>

EmptyImage == [width |-> 0, height |-> 0, px |-> <<>>]

PasteIdle ==
    /\ ppc = "idle"
    /\ base_image = EmptyImage
    /\ overlay_image = EmptyImage
    /\ paste_xy = <<0, 0>>
    /\ pasted = EmptyImage

TilerIdle ==
    /\ tpc = "idle"
    /\ pictures = <<>>
    /\ pic_results = <<>>
    /\ pic_images = <<>>

RenderIdle ==
    /\ rpc = "idle"
    /\ dynamic = <<>>
    /\ overflow_checks = FALSE
    /\ generator = new(0, 0)
    /\ content = <<>>
    /\ text_images = <<>>
    /\ pic_loc = <<0, 0>>
    /\ pic_idx = 0

CanvasIdle ==
    /\ cpc = "idle"
    /\ canvas = new(0, 0)
    /\ canvas_before = new(0, 0)
    /\ canvas_ops = <<>>
    /\ canvas_alloc = <<0, 0>>

CircleIdle ==
    /\ kpc = "idle"
    /\ input_image = [width |-> 0, height |-> 0, pattern |-> "opaque"]
    /\ diameter = 0
    /\ resized_size = <<0, 0>>
    /\ circle_offset = <<0, 0>>
    /\ circle_i = 0
    /\ circular_image = EmptyImage

TargetIdle ==
    /\ target = <<>>
    /\ spawned = 0
    /\ db = <<>>
    /\ target_set = <<>>
    /\ sent_messages = <<>>
    /\ relay_sent = <<>>
    /\ healthy = FALSE
    /\ tree_readers = <<>>
    /\ tree_writers = <<>>

NodesIdle ==
    /\ bpc = "idle"
    /\ title = None
    /\ raw_text_nodes = <<>>
    /\ node_i = 0
    /\ res = <<>>

RelayIdle ==
    /\ qpc = "idle"
    /\ relay_answers = <<>>
    /\ session_key = None
    /\ relay_log = <<>>
    /\ send_result = None

(***************************************************************************)
(* draw_content_image as a state machine: one step per node or character   *)
(***************************************************************************)
LayoutInit ==
    /\ NodesIdle
    /\ RelayIdle
    /\ TargetIdle
    /\ CircleIdle
    /\ CanvasIdle
    /\ StripIdle
    /\ PasteIdle
    /\ TilerIdle
    /\ RenderIdle
    /\ lpc = "node"
    /\ line_max_width \in LineWidths
    /\ emoji_font \in LayoutFonts
    /\ lay = LayoutStart(line_max_width)
    /\ chars = <<>>
    /\ consumed = 0
    /\ nnodes = 0
    /\ input_newlines = 0
    /\ last = <<"start">>
    /\ result = <<>>

\* `if let RichTextNode::Text { text } = node`: the text is cleaned once
TextNode ==
    /\ lpc = "node"
    /\ nnodes < MaxNodes
    /\ \E text \in SeqsUpTo(LayoutChars, MaxItems - consumed) :
          /\ chars' = clean_special_chars(text)
          /\ consumed' = consumed + Len(text)
          /\ input_newlines' = input_newlines + CountChar(text, NEWLINE)
    /\ nnodes' = nnodes + 1
    /\ lpc' = "text"
    /\ last' = <<"text">>
    /\ UNCHANGED <<line_max_width, emoji_font, lay, result, exceptLayout>>

TextChar ==
    /\ lpc = "text"
    /\ chars # <<>>
    /\ lay' = CharStep(lay, Head(chars), line_max_width, emoji_font)
    /\ chars' = Tail(chars)
    /\ last' = <<"char", Head(chars)>>
    /\ UNCHANGED <<lpc, line_max_width, emoji_font, consumed, nnodes,
                   input_newlines, result, exceptLayout>>

\* the `continue` after the character loop
TextEnd ==
    /\ lpc = "text"
    /\ chars = <<>>
    /\ lpc' = "node"
    /\ last' = <<"textend">>
    /\ UNCHANGED <<line_max_width, emoji_font, lay, chars, consumed, nnodes,
                   input_newlines, result, exceptLayout>>

ImageNode ==
    /\ lpc = "node"
    /\ nnodes < MaxNodes
    /\ consumed < MaxItems
    /\ \E kind \in ImageKinds :
          /\ lay' = ImageStep(lay, kind, line_max_width)
          /\ last' = <<"image", kind>>
    /\ consumed' = consumed + 1
    /\ nnodes' = nnodes + 1
    /\ UNCHANGED <<lpc, line_max_width, emoji_font, chars, input_newlines,
                   result, exceptLayout>>

LayoutFinish ==
    /\ lpc = "node"
    /\ result' = FinishImages(lay)
    /\ lpc' = "done"
    /\ last' = <<"finish">>
    /\ UNCHANGED <<line_max_width, emoji_font, lay, chars, consumed, nnodes,
                   input_newlines, exceptLayout>>

LayoutNext == TextNode \/ TextChar \/ TextEnd \/ ImageNode \/ LayoutFinish

SpecLayout == LayoutInit /\ [][LayoutNext]_vars

(***************************************************************************)
(* Claims about draw_content_image                                         *)
(***************************************************************************)
AllLines == IF lpc = "done" THEN result ELSE Append(lay.images, lay.cur)

LastItem == lay.cur.items[Len(lay.cur.items)]

\* C1: after an Emoji or icon node is composited into the line at x, x has
\* been advanced by the width of the resized image (30 or 40), so x is at the
\* right edge of that image
C1_XAdvancedPastImage ==
    (lpc = "node" /\ last[1] = "image") =>
        /\ LastItem.w = ResizedWidth(last[2])
        /\ lay.x = LastItem.x + LastItem.w

\* C2: every item placed on a line whose width is at most line_max_width
\* ends inside the line: x + item_width <= line_max_width
C2_ItemsFitLine ==
    lpc # "idle" =>
        \A i \in 1..Len(AllLines) : \A j \in 1..Len(AllLines[i].items) :
            LET it == AllLines[i].items[j] IN
            it.w <= line_max_width => it.x + it.w <= line_max_width

\* C3: draw_content_image returns at least one line image, each of width
\* line_max_width, and for the empty node sequence exactly one line image
\* with nothing drawn on it
C3_AtLeastOneLine ==
    lpc = "done" =>
        /\ Len(result) >= 1
        /\ \A i \in 1..Len(result) : result[i].width = line_max_width
        /\ nnodes = 0 =>
              /\ Len(result) = 1
              /\ result[1].items = <<>>

C3_Witness == lpc = "done" /\ nnodes = 0 /\ Len(result) = 1

\* C4: a newline character appends the current line image to the output, also
\* an empty one, and resets x to 0; the line in progress at the end of the
\* input is appended; without a width wrap the number of line images is
\* 1 + the number of newline characters of the input
C4_NewlineState ==
    lpc = "done" =>
        /\ result = Append(lay.images, lay.cur)
        /\ lay.wraps = 0 => Len(result) = 1 + input_newlines

C4_NewlineAction ==
    (lpc = "text" /\ chars # <<>> /\ Head(chars) = NEWLINE) =>
        /\ lay'.images = Append(lay.images, lay.cur)
        /\ lay'.cur.items = <<>>
        /\ lay'.x = 0

C4_NewlineLines == [](C4_NewlineState) /\ [][C4_NewlineAction]_vars

C4_Witness ==
    /\ lpc = "done"
    /\ lay.wraps = 0
    /\ input_newlines = 2
    /\ Len(result) = 3
    /\ result[1].items = <<>>
    /\ result[2].items # <<>>

(***************************************************************************)
(* draw_content_image applied to a text and to the text without its        *)
(* special characters                                                      *)
(***************************************************************************)
TextNodeOf(t) == [kind |-> "Text", text |-> t]

RECURSIVE RemoveChars(_, _)
RemoveChars(t, S) ==
    IF t = <<>> THEN <<>>
    ELSE IF Head(t) \in S THEN RemoveChars(Tail(t), S)
    ELSE <<Head(t)>> \o RemoveChars(Tail(t), S)

\* U+200B and U+FE00..U+FE0F
VariationSelectors == 65024..65039
SpecialChars == {ZWSP} \cup VariationSelectors

StripInit ==
    /\ NodesIdle
    /\ RelayIdle
    /\ lpc = "idle"
    /\ line_max_width \in LineWidths
    /\ emoji_font \in EmojiFonts
    /\ lay = LayoutStart(0)
    /\ chars = <<>>
    /\ consumed = 0
    /\ nnodes = 0
    /\ input_newlines = 0
    /\ last = <<"none">>
    /\ result = <<>>
    /\ spc = "ready"
    /\ stext \in SeqsUpTo(StripChars, MaxStripLen)
    /\ out_text = <<>>
    /\ out_removed = <<>>
    /\ TargetIdle
    /\ CircleIdle
    /\ CanvasIdle
    /\ PasteIdle
    /\ TilerIdle
    /\ RenderIdle

DrawText ==
    /\ spc = "ready"
    /\ out_text' = draw_content_image(<<TextNodeOf(stext)>>, line_max_width, emoji_font)
    /\ spc' = "drawn"
    /\ UNCHANGED <<exceptStrip, stext, out_removed>>

DrawRemoved(S) ==
    /\ spc = "drawn"
    /\ out_removed' =
          draw_content_image(<<TextNodeOf(RemoveChars(stext, S))>>,
                             line_max_width, emoji_font)
    /\ spc' = IF S = SpecialChars THEN "all" ELSE "cleaned"
    /\ UNCHANGED <<exceptStrip, stext, out_text>>

StripNext == DrawText \/ DrawRemoved(SpecialChars) \/ DrawRemoved({ZWSP, VS16})

SpecStrip == StripInit /\ [][StripNext]_vars

\* C5: the output for a text equals the output for the text with U+200B and
\* the variation selectors U+FE00..U+FE0F removed
C5_AllSelectorsIgnored == spc = "all" => out_text = out_removed

\* C5 (amended): the output for a text equals the output for the text with
\* U+200B and U+FE0F removed; the lines keep their count and every item its x
C5_CleanedIgnored == spc = "cleaned" => out_text = out_removed

C5_Witness ==
    /\ spc = "cleaned"
    /\ \E i, j, k \in 1..Len(stext) :
          stext[i] = ZWSP /\ stext[j] = VS16 /\ stext[k] = 97
    /\ out_text[1].items # <<>>

(***************************************************************************)
(* paste_image and paste_image_with_alpha applied to a base and an overlay *)
(***************************************************************************)
Images(w, h, pixels) ==
    {[width |-> w, height |-> h, px |-> f] : f \in [Coords(w, h) -> pixels]}

\* 2x2 bases and 2x1 overlays pasted at every offset up to MaxOffset
GeoBasePixels == {<<10, 20, 30, 0>>, <<200, 100, 50, 128>>, <<255, 255, 255, 255>>}
GeoOverlayPixels == {<<0, 0, 0, 0>>, <<9, 9, 9, 0>>, <<40, 80, 120, 64>>, <<1, 2, 3, 255>>}

\* single pixels: every base alpha with a sample of the colour channels
ChannelSamples == {0, 1, 2, 63, 64, 127, 128, 129, 191, 254, 255}
ValueBasePixels ==
    {<<c, 255 - c, (7 * c) % 256, a>> : c \in ChannelSamples, a \in 0..255}
ValueOverlayPixels ==
    {<<c, 255 - c, (11 * c) % 256, a>> : c \in {0, 77, 255}, a \in {0, 1, 128, 255}}

PasteInit ==
    /\ NodesIdle
    /\ RelayIdle
    /\ TargetIdle
    /\ CircleIdle
    /\ CanvasIdle
    /\ LayoutIdle
    /\ StripIdle
    /\ TilerIdle
    /\ RenderIdle
    /\ ppc = "ready"
    /\ \/ /\ base_image \in Images(2, 2, GeoBasePixels)
          /\ overlay_image \in Images(2, 1, GeoOverlayPixels)
          /\ paste_xy \in (0..MaxOffset) \X (0..MaxOffset)
       \/ /\ base_image \in Images(1, 1, ValueBasePixels)
          /\ overlay_image \in Images(1, 1, ValueOverlayPixels)
          /\ paste_xy = <<0, 0>>
    /\ pasted = EmptyImage

PasteImage ==
    /\ ppc = "ready"
    /\ pasted' = paste_image(base_image, overlay_image, paste_xy[1], paste_xy[2])
    /\ ppc' = "opaque"
    /\ UNCHANGED <<exceptPaste, base_image, overlay_image, paste_xy>>

PasteImageWithAlpha ==
    /\ ppc = "ready"
    /\ pasted' = paste_image_with_alpha(base_image, overlay_image, paste_xy[1], paste_xy[2])
    /\ ppc' = "alpha"
    /\ UNCHANGED <<exceptPaste, base_image, overlay_image, paste_xy>>

PasteNext == PasteImage \/ PasteImageWithAlpha

SpecPaste == PasteInit /\ [][PasteNext]_vars

\* the overlay coordinates whose destination lies inside the base image
InBoundsOverlay ==
    {c \in DOMAIN overlay_image.px :
        /\ paste_xy[1] + c[1] < base_image.width
        /\ paste_xy[2] + c[2] < base_image.height}

Dest(c) == <<paste_xy[1] + c[1], paste_xy[2] + c[2]>>

\* C6: paste_image_with_alpha with an overlay pixel of alpha 0 leaves the
\* destination pixel (colour channels and alpha) unchanged, also when the
\* destination's alpha is 0
C6_TransparentKeepsBase ==
    ppc = "alpha" =>
        \A c \in InBoundsOverlay :
            overlay_image.px[c][4] = 0 => pasted.px[Dest(c)] = base_image.px[Dest(c)]

\* C7: paste_image_with_alpha with an overlay pixel of alpha 255 sets the
\* in-bounds destination pixel to exactly the overlay pixel
C7_OpaqueReplacesBase ==
    ppc = "alpha" =>
        \A c \in InBoundsOverlay :
            overlay_image.px[c][4] = 255 => pasted.px[Dest(c)] = overlay_image.px[c]

C7_Witness ==
    /\ ppc = "alpha"
    /\ \E c \in InBoundsOverlay :
          /\ overlay_image.px[c][4] = 255
          /\ base_image.px[Dest(c)][4] \in 1..254
          /\ base_image.px[Dest(c)][1] # overlay_image.px[c][1]
          /\ pasted.px[Dest(c)] = overlay_image.px[c]

DecodedSizes == {<<800, 400>>, <<400, 800>>, <<500, 500>>, <<518, 345>>}

PictureChoices ==
    {[valid |-> FALSE, height |-> 0, width |-> 0, fetch |-> "err", img |-> <<0, 0>>]}
    \cup {[valid |-> TRUE, height |-> 400, width |-> 800, fetch |-> "err", img |-> <<0, 0>>]}
    \cup {[valid |-> TRUE, height |-> sz[2], width |-> sz[1], fetch |-> "ok", img |-> sz] :
            sz \in DecodedSizes}
    \cup {[valid |-> TRUE, height |-> 1200, width |-> 300, fetch |-> "ok", img |-> <<300, 1200>>]}

\* the sides of decoded images: small ones, the tile edges and their
\* neighbours, and the largest side of a WebP image
SweepSides == (1..MaxSide) \cup {233, 355, 719, 720, 721, 16383}

FetchedPicture(sz) ==
    [valid |-> TRUE, height |-> sz[2], width |-> sz[1], fetch |-> "ok", img |-> sz]

\* every list of up to MaxPics of the picture choices, and 1..MaxPics fetched
\* pictures of one size
TilerInit ==
    /\ NodesIdle
    /\ RelayIdle
    /\ TargetIdle
    /\ CircleIdle
    /\ CanvasIdle
    /\ LayoutIdle
    /\ StripIdle
    /\ PasteIdle
    /\ RenderIdle
    /\ tpc = "start"
    /\ \/ pictures \in SeqsUpTo(PictureChoices, MaxPics)
       \/ \E n \in 1..MaxPics, sz \in SweepSides \X SweepSides :
             pictures = [i \in 1..n |-> FetchedPicture(sz)]
    /\ pic_results = <<>>
    /\ pic_images = <<>>

\* the first loop and join_all
FetchAll ==
    /\ tpc = "start"
    /\ pic_results' = BuildSet(pictures, 1, num_pictures_in_line(Len(pictures)))
    /\ tpc' = "results"
    /\ UNCHANGED <<exceptTiler, pictures, pic_images>>

\* `for result in results`
HandleResult ==
    /\ tpc = "results"
    /\ pic_results # <<>>
    /\ pic_images' =
          ResultStep(pic_images, Head(pic_results),
                     picture_square_size(Len(pictures), ImageAreaWidth, ImageMargin))
    /\ pic_results' = Tail(pic_results)
    /\ UNCHANGED <<exceptTiler, tpc, pictures>>

\* Ok(images)
ReturnImages ==
    /\ tpc = "results"
    /\ pic_results = <<>>
    /\ tpc' = "done"
    /\ UNCHANGED <<exceptTiler, pictures, pic_results, pic_images>>

TilerNext == FetchAll \/ HandleResult \/ ReturnImages

SpecTiler == TilerInit /\ [][TilerNext]_vars

\* a post with one photo, 800 wide and 400 high, that is fetched and decoded
OneWidePhoto ==
    /\ Len(pictures) = 1
    /\ pictures[1].valid
    /\ pictures[1].fetch = "ok"
    /\ pictures[1].img = <<800, 400>>

\* C10: one photo of width 800 and height 400 gives exactly one tile of edge
\* 740 - 2 * 10 = 720, obtained by cropping the top and bottom of the resized
\* photo
C10_CroppedTopBottom ==
    (tpc = "done" /\ OneWidePhoto) =>
        /\ Len(pic_images) = 1
        /\ pic_images[1].width = 720 /\ pic_images[1].height = 720
        /\ pic_images[1].resized[2] > 720
        /\ pic_images[1].crop[2] > 0
        /\ pic_images[1].crop[1] = 0

\* C10 (amended): one fetched photo of width 800 and height 400 gives exactly
\* one tile of edge 720, obtained by scaling the photo to 1440 x 720 and
\* cropping 360 columns from the left and from the right
C10_CroppedLeftRight ==
    (tpc = "done" /\ OneWidePhoto) =>
        /\ Len(pic_images) = 1
        /\ pic_images[1].width = 720 /\ pic_images[1].height = 720
        /\ pic_images[1].resized = <<1440, 720>>
        /\ pic_images[1].crop = <<360, 0>>

C10_Witness == tpc = "done" /\ OneWidePhoto /\ Len(pic_images) = 1

(***************************************************************************)
(* draw_dynamic as a state machine                                         *)
(***************************************************************************)
Repeat(v, n) == [i \in 1..n |-> v]

\* the numbers of '\n' the text of a post has: few, and enough to fill the
\* 10000 rows of the canvas
NewlineCounts == {0, 1} \cup ((MaxNewlines - 3)..MaxNewlines)

TextsOf(k) == <<TextNodeOf(Repeat(NEWLINE, k))>>

OkPicture == [valid |-> TRUE, height |-> 400, width |-> 800, fetch |-> "ok", img |-> <<800, 400>>]
ErrPicture == [valid |-> TRUE, height |-> 400, width |-> 800, fetch |-> "err", img |-> <<0, 0>>]

\* the picture lists of a Draw post: n fetched pictures, and four pictures
\* of which the second is not fetched
RenderPictures ==
    {Repeat(OkPicture, n) : n \in 0..MaxRenderPics}
    \cup {<<OkPicture, ErrPicture, OkPicture, OkPicture>>}

\* Content::from_detail_json: pics is what download_dynamic_images returned
\* for the num_pictures picture definitions of the post
Word(k) == [kind |-> "Word", texts |-> TextsOf(k)]
DrawContent(k, pics) ==
    [kind |-> "Draw", texts |-> TextsOf(k), num_pictures |-> Len(pics),
     pics |-> download_dynamic_images(pics, ImageAreaWidth, ImageMargin)]
Live == [kind |-> "Live", live_title |-> <<150, 28>>, live_cover |-> [width |-> 203, height |-> 127]]
Forward(k, original) ==
    [kind |-> "Forward", texts |-> TextsOf(k), original_author |-> <<90, 28>>,
     original |-> original]

Originals ==
    {Word(0), Live, Forward(0, Word(1))}
    \cup {DrawContent(0, ps) : ps \in RenderPictures}

Contents ==
    {Word(k) : k \in NewlineCounts}
    \cup {Live}
    \cup {DrawContent(k, ps) : k \in {0, MaxNewlines}, ps \in RenderPictures}
    \cup {Forward(k, o) : k \in NewlineCounts, o \in Originals}

\* the measured sizes <<width, height>> of the user name and the timestamp
NameSizes == {<<120, 22>>, <<120, 28>>}
TimestampSize == <<210, 18>>

RenderInit ==
    /\ NodesIdle
    /\ RelayIdle
    /\ TargetIdle
    /\ CircleIdle
    /\ CanvasIdle
    /\ LayoutIdle
    /\ StripIdle
    /\ PasteIdle
    /\ TilerIdle
    /\ rpc = "start"
    /\ dynamic \in [vip : BOOLEAN, uname : NameSizes, ts : {TimestampSize},
                    content : Contents]
    /\ overflow_checks \in BOOLEAN
    /\ generator = new(0, 0)
    /\ content = <<>>
    /\ text_images = <<>>
    /\ pic_loc = <<0, 0>>
    /\ pic_idx = 0

\* draw_dynamic up to draw_content(&mut generator, &dynamic.content)
RenderHeader ==
    /\ rpc = "start"
    /\ generator' = DrawHeader(dynamic.vip, dynamic.uname, dynamic.ts)
    /\ content' = dynamic.content
    /\ rpc' = "content"
    /\ UNCHANGED <<exceptRender, dynamic, overflow_checks, text_images, pic_loc, pic_idx>>

\* draw_content for Forward, Draw and Word: draw_content_image of the texts
BeginTexts ==
    /\ rpc = "content"
    /\ content.kind \in {"Forward", "Draw", "Word"}
    /\ text_images' = draw_content_image(content.texts, generator.width - 50, emoji_font)
    /\ rpc' = "lines"
    /\ UNCHANGED <<exceptRender, dynamic, overflow_checks, generator, content, pic_loc, pic_idx>>

\* `for image in text_images { generator.draw_img_alpha(&image, None); }`
DrawLine ==
    /\ rpc = "lines"
    /\ text_images # <<>>
    /\ generator' = draw_img_alpha(generator, Head(text_images), None)
    /\ text_images' = Tail(text_images)
    /\ UNCHANGED <<exceptRender, rpc, dynamic, overflow_checks, content, pic_loc, pic_idx>>

\* Content::Word ends after its lines
EndWord ==
    /\ rpc = "lines"
    /\ text_images = <<>>
    /\ content.kind = "Word"
    /\ rpc' = "crop"
    /\ UNCHANGED <<exceptRender, dynamic, overflow_checks, generator, content,
                   text_images, pic_loc, pic_idx>>

\* Content::Forward after its lines: background, @author, then the original
ForwardOriginal ==
    /\ rpc = "lines"
    /\ text_images = <<>>
    /\ content.kind = "Forward"
    /\ generator' = ForwardBackground(generator, content.original_author, overflow_checks)
    /\ IF generator'.panicked
       THEN rpc' = "panicked" /\ content' = content
       ELSE rpc' = "content" /\ content' = content.original
    /\ UNCHANGED <<exceptRender, dynamic, overflow_checks, text_images, pic_loc, pic_idx>>

\* Content::Draw after its lines: let (mut x, mut y) = (generator.x(), generator.y())
BeginPics ==
    /\ rpc = "lines"
    /\ text_images = <<>>
    /\ content.kind = "Draw"
    /\ pic_loc' = <<generator.x, generator.y>>
    /\ pic_idx' = 0
    /\ rpc' = "pics"
    /\ UNCHANGED <<exceptRender, dynamic, overflow_checks, generator, content, text_images>>

\* the picture number pic_idx: it is picture i of a chunk of n
DrawNextPic ==
    /\ rpc = "pics"
    /\ pic_idx < Len(content.pics)
    /\ LET per_line == num_pics_per_line(Len(content.pics))
           i == pic_idx % per_line
           n == Min(per_line, Len(content.pics) - (pic_idx - i))
           r == DrawPic(generator, pic_loc, content.pics[pic_idx + 1], i, n)
       IN  generator' = r[1] /\ pic_loc' = r[2]
    /\ pic_idx' = pic_idx + 1
    /\ UNCHANGED <<exceptRender, rpc, dynamic, overflow_checks, content, text_images>>

\* generator.set_y(y + 20)
EndPics ==
    /\ rpc = "pics"
    /\ pic_idx = Len(content.pics)
    /\ generator' = set_y(generator, pic_loc[2] + 20)
    /\ rpc' = "crop"
    /\ UNCHANGED <<exceptRender, dynamic, overflow_checks, content, text_images,
                   pic_loc, pic_idx>>

\* Content::Live
DrawLive ==
    /\ rpc = "content"
    /\ content.kind = "Live"
    /\ generator' = draw_img(draw_text(generator, <<content.live_title>>, <<"BLACK">>, None),
                             content.live_cover, None)
    /\ rpc' = "crop"
    /\ UNCHANGED <<exceptRender, dynamic, overflow_checks, content, text_images,
                   pic_loc, pic_idx>>

\* generator.crop_bottom(); generator.into_image()
CropAndReturn ==
    /\ rpc = "crop"
    /\ generator' = crop_bottom(generator)
    /\ rpc' = "done"
    /\ UNCHANGED <<exceptRender, dynamic, overflow_checks, content, text_images,
                   pic_loc, pic_idx>>

RenderNext ==
    \/ RenderHeader \/ BeginTexts \/ DrawLine \/ EndWord \/ ForwardOriginal
    \/ BeginPics \/ DrawNextPic \/ EndPics \/ DrawLive \/ CropAndReturn

SpecRender == RenderInit /\ [][RenderNext]_vars

\* C9: rendering a post never aborts and no u32 subtraction goes below zero,
\* also when the rows drawn move cursor y beyond the 10000 rows of the canvas
C9_NeverAborts == rpc # "panicked" /\ ~generator.wrapped

(***************************************************************************)
(* Claims about the photo grid of Content::Draw                            *)
(***************************************************************************)
GridDone == rpc \in {"crop", "done"} /\ content.kind = "Draw"

IsTilePaste(d) == d[1] = "paste_image"

\* the tiles pasted by the grid loop, as <<op, x, y, width, height>>
GridTiles == SelectSeq(generator.drawn, IsTilePaste)

\* C11: in the photo grid the first tile of every row is at x = 10, tile k of
\* a row at x = 10 + k * (edge + 10), a row starts 10 below the bottom of the
\* row above it, every tile ends inside the canvas width, and after the grid
\* cursor y is the bottom of the last row + 10 + 20
C11_GridPositions ==
    GridDone =>
        LET tiles == GridTiles
            n == Len(tiles)
            per == num_pics_per_line(n)
        IN  /\ \A i \in 1..n :
                  /\ tiles[i][2] = 10 + ((i - 1) % per) * (tiles[i][4] + 10)
                  /\ tiles[i][2] + tiles[i][4] <= CanvasWidth
                  /\ i > per => tiles[i][3] = tiles[i - per][3] + tiles[i - per][5] + 10
            /\ n > 0 => generator.y = tiles[n][3] + tiles[n][5] + 10 + 20

\* the photos-per-row count and the tile edge the count stands for
PerRowOf(count) == IF count = 1 THEN 1 ELSE IF count \in {2, 4} THEN 2 ELSE 3
EdgeOfPerRow(per) == (CanvasWidth - (per + 1) * 10) \div per

\* C12: the photos-per-row count is 1 for 1 photo, 2 for 2 or 4 photos and 3
\* for every other count, where the tiles are sized (their edge is the one
\* of that count) and where the grid is laid out (tiles i and j are in the
\* same row exactly when they are in the same group of that many tiles)
C12_PhotosPerRow ==
    GridDone =>
        LET tiles == GridTiles
            n == Len(tiles)
        IN  /\ \A i \in 1..n :
                  tiles[i][4] = EdgeOfPerRow(PerRowOf(content.num_pictures))
            /\ \A i, j \in 1..n :
                  (tiles[i][3] = tiles[j][3]) <=>
                      ((i - 1) \div PerRowOf(n) = (j - 1) \div PerRowOf(n))

C12_Witness ==
    /\ GridDone
    /\ content.num_pictures = 6
    /\ Len(GridTiles) = 6
    /\ GridTiles[3][3] = GridTiles[1][3]
    /\ GridTiles[4][3] > GridTiles[1][3]

RECURSIVE RowWidth(_, _, _)
\* the widths of the tiles pasted at height y among the first i tiles, each
\* with the margin before it
RowWidth(tiles, y, i) ==
    IF i = 0 THEN 0
    ELSE RowWidth(tiles, y, i - 1)
         + (IF tiles[i][3] = y THEN ImageMargin + tiles[i][4] ELSE 0)

\* C27: the photos-per-row count draw_content lays the grid out with is the
\* count download_dynamic_images sized the tiles with, whatever the pictures
\* and whichever of their fetches failed, so the tiles of a row and the
\* margins before, between and after them are within the image area width
C27_SameCountRowsFit ==
    GridDone =>
        LET tiles == GridTiles
            n == Len(tiles)
        IN  n > 0 =>
              /\ num_pics_per_line(Len(content.pics))
                   = num_pictures_in_line(content.num_pictures)
              /\ \A i \in 1..n :
                   RowWidth(tiles, tiles[i][3], n) + ImageMargin <= ImageAreaWidth

(***************************************************************************)
(* Claims about download_dynamic_images                                    *)
(***************************************************************************)
\* the pictures whose definition is well-formed and whose download succeeds
FetchedIndices ==
    {k \in 1..Len(pictures) : pictures[k].valid /\ pictures[k].fetch = "ok"}

\* C13: download_dynamic_images returns at most one tile per input picture,
\* in input order: the tiles of exactly the pictures that are well-formed and
\* fetched, whatever the other pictures are
C13_DropsOnlyFailed ==
    tpc = "done" =>
        /\ Len(pic_images) <= Len(pictures)
        /\ \A i, j \in 1..Len(pic_images) :
              i < j => pic_images[i].src < pic_images[j].src
        /\ {pic_images[i].src : i \in 1..Len(pic_images)} = FetchedIndices

C13_Witness ==
    /\ tpc = "done"
    /\ Len(pictures) = 3
    /\ ~pictures[1].valid
    /\ pictures[2].valid /\ pictures[2].fetch = "err"
    /\ Len(pic_images) = 1
    /\ pic_images[1].src = 3

\* C14: every tile returned is edge x edge, with edge 720 for 1 per row, 355
\* for 2 per row and 233 for 3 per row, whatever the size of the decoded
\* photo; both sides of the scaled photo are at least edge, so the crop
\* offset is not negative
C14_TileIsEdgeSquare ==
    tpc \in {"results", "done"} =>
        LET edge == EdgeOfPerRow(PerRowOf(Len(pictures)))
        IN  \A i \in 1..Len(pic_images) :
                LET t == pic_images[i] IN
                /\ t.width = edge /\ t.height = edge
                /\ t.resized[1] >= edge /\ t.resized[2] >= edge
                /\ t.crop[1] >= 0 /\ t.crop[2] >= 0

C14_Witness ==
    /\ tpc = "done"
    /\ Len(pictures) = 3
    /\ Len(pic_images) = 3
    /\ pictures[1].img = <<1, 16383>>
    /\ pic_images[1].width = 233 /\ pic_images[1].height = 233
    /\ pic_images[1].crop[2] > 0

(***************************************************************************)
(* A PicGenerator under any sequence of its operations                     *)
(***************************************************************************)
\* the sizes generators are created with: the one of draw_dynamic and a
\* small one that a few rows fill
CanvasSizes == {<<CanvasWidth, CanvasHeight>>, <<10, 50>>}

\* images drawn, by their size: a small one and a line wider than the buffer
CanvasImages == {[width |-> 5, height |-> 3], [width |-> 800, height |-> 40]}

\* the xy argument: none, or a position from which every image and text
\* extends beyond the buffer
CanvasPositions == {None, Some(738, 49)}

\* texts by their measured sizes <<tw, th>>, with the colors argument
CanvasTexts ==
    { <<<<>>, <<>>>>,
      <<<< <<30, 22>> >>, <<"PINK">>>>,
      <<<< <<30, 22>>, <<45, 28>> >>, <<"PINK">>>>,
      <<<< <<45, 28>>, <<30, 22>> >>, <<"PINK", "GRAY">>>> }

\* rectangles <<x, y, height, width>>: the background of draw_dynamic and an
\* empty one
CanvasRects == {<<0, 0, 10000, 740>>, <<5, 45, 0, 3>>}

CanvasInit ==
    /\ NodesIdle
    /\ RelayIdle
    /\ TargetIdle
    /\ CircleIdle
    /\ LayoutIdle
    /\ StripIdle
    /\ PasteIdle
    /\ TilerIdle
    /\ RenderIdle
    /\ cpc = "ready"
    /\ canvas_alloc \in CanvasSizes
    /\ canvas = new(canvas_alloc[1], canvas_alloc[2])
    /\ canvas_before = canvas
    /\ canvas_ops = <<>>

\* one operation op on the generator, which becomes g
CanvasStep(op, g) ==
    /\ cpc = "ready"
    /\ Len(canvas_ops) < MaxOps
    /\ canvas' = g
    /\ canvas_before' = canvas
    /\ canvas_ops' = Append(canvas_ops, op)
    /\ cpc' = IF g.panicked THEN "panicked" ELSE "ready"
    /\ UNCHANGED <<canvas_alloc, exceptCanvas>>

DoDrawImg ==
    \E img \in CanvasImages, xy \in CanvasPositions :
        CanvasStep([name |-> "draw_img", img |-> img, xy |-> xy],
                   draw_img(canvas, img, xy))

DoDrawImgAlpha ==
    \E img \in CanvasImages, xy \in CanvasPositions :
        CanvasStep([name |-> "draw_img_alpha", img |-> img, xy |-> xy],
                   draw_img_alpha(canvas, img, xy))

DoDrawText ==
    \E t \in CanvasTexts, xy \in CanvasPositions :
        CanvasStep([name |-> "draw_text", sizes |-> t[1], colors |-> t[2], xy |-> xy],
                   draw_text(canvas, t[1], t[2], xy))

DoDrawRectangle ==
    \E r \in CanvasRects :
        CanvasStep([name |-> "draw_rectangle", rect |-> r],
                   draw_rectangle(canvas, r[1], r[2], r[3], r[4]))

DoSetPos ==
    CanvasStep([name |-> "set_pos"], set_pos(canvas, 175, 60))

DoSetX ==
    CanvasStep([name |-> "set_x"], set_x(canvas, 25))

DoSetY ==
    CanvasStep([name |-> "set_y"], set_y(canvas, 7))

DoSetRowSpace ==
    CanvasStep([name |-> "set_row_space"], set_row_space(canvas, 10))

DoCropBottom ==
    CanvasStep([name |-> "crop_bottom"], crop_bottom(canvas))

\* into_image consumes the generator
DoIntoImage ==
    /\ cpc = "ready"
    /\ cpc' = "returned"
    /\ UNCHANGED <<canvas, canvas_before, canvas_ops, canvas_alloc, exceptCanvas>>

CanvasNext ==
    \/ DoDrawImg \/ DoDrawImgAlpha \/ DoDrawText \/ DoDrawRectangle
    \/ DoSetPos \/ DoSetX \/ DoSetY \/ DoSetRowSpace \/ DoCropBottom
    \/ DoIntoImage

SpecCanvas == CanvasInit /\ [][CanvasNext]_vars

(***************************************************************************)
(* Claims about PicGenerator                                               *)
(***************************************************************************)
LastOp == canvas_ops[Len(canvas_ops)]

\* the last operation applied to the generator is one of names
Acted(names) == cpc # "idle" /\ canvas_ops # <<>> /\ LastOp.name \in names

\* the operations before the last one
RowOps == SubSeq(canvas_ops, 1, Len(canvas_ops) - 1)

\* since new, only N >= 1 image draws without a position, of one height
UniformRows ==
    /\ RowOps # <<>>
    /\ \A i \in 1..Len(RowOps) :
          /\ RowOps[i].name \in {"draw_img", "draw_img_alpha"}
          /\ RowOps[i].xy = None
          /\ RowOps[i].img.height = RowOps[1].img.height

\* N * H + N * S of such a run
RowsSum == Len(RowOps) * RowOps[1].img.height + Len(RowOps) * canvas.row_space

CropClamps ==
    /\ canvas.height = Min(canvas_before.y, canvas_before.height)
    /\ canvas.height <= canvas_alloc[2]
    /\ canvas.width = canvas_before.width
    /\ canvas.width = canvas_alloc[1]

C16_ImageRowAdvance ==
    (Acted({"draw_img", "draw_img_alpha"}) /\ LastOp.xy = None) =>
        LET routine == IF LastOp.name = "draw_img" THEN "paste_image"
                       ELSE "paste_image_with_alpha"
        IN  /\ canvas.x = canvas_before.x
            /\ canvas.y = canvas_before.y + LastOp.img.height + canvas_before.row_space
            /\ canvas.drawn =
                  Append(canvas_before.drawn,
                         <<routine, canvas_before.x, canvas_before.y,
                           LastOp.img.width, LastOp.img.height>>)
            /\ canvas.row_space = canvas_before.row_space
            /\ canvas.width = canvas_before.width
            /\ canvas.height = canvas_before.height

C16_Witness ==
    /\ Acted({"draw_img_alpha"})
    /\ LastOp.xy = None
    /\ canvas_before.row_space = 10
    /\ canvas_before.x = 25
    /\ canvas.y = canvas_before.y + 40 + 10

RECURSIVE SumWidths(_, _)
\* the measured widths of the first k texts
SumWidths(sizes, k) == IF k = 0 THEN 0 ELSE SumWidths(sizes, k - 1) + sizes[k][1]

MaxHeight(sizes) ==
    IF sizes = <<>> THEN 0
    ELSE CHOOSE h \in {sizes[i][2] : i \in 1..Len(sizes)} :
            \A i \in 1..Len(sizes) : sizes[i][2] <= h

\* C17: draw_text without a position draws string i at cursor x + the
\* measured widths of the strings before it, in colors[i] or black without an
\* entry i, leaves cursor x unchanged and advances cursor y by the largest
\* measured height + row_space
C17_TextRowAdvance ==
    (Acted({"draw_text"}) /\ LastOp.xy = None) =>
        /\ canvas.x = canvas_before.x
        /\ canvas.y = canvas_before.y + MaxHeight(LastOp.sizes) + canvas_before.row_space
        /\ canvas.drawn =
              canvas_before.drawn \o
              [i \in 1..Len(LastOp.sizes) |->
                  <<"draw_text", canvas_before.x + SumWidths(LastOp.sizes, i - 1),
                    canvas_before.y, LastOp.sizes[i][1], LastOp.sizes[i][2],
                    IF i <= Len(LastOp.colors) THEN LastOp.colors[i] ELSE "BLACK">>]

C17_Witness ==
    /\ Acted({"draw_text"})
    /\ LastOp.xy = None
    /\ Len(LastOp.sizes) = 2
    /\ Len(LastOp.colors) = 1
    /\ canvas_before.x = 25
    /\ canvas.y = canvas_before.y + 28 + 25
    /\ canvas.drawn[Len(canvas.drawn)][2] = 25 + 30
    /\ canvas.drawn[Len(canvas.drawn)][6] = "BLACK"

\* the last operation was given a position
Positioned == Acted({"draw_img", "draw_img_alpha", "draw_text"}) /\ LastOp.xy # None

\* C18: draw_rectangle, and draw_img, draw_img_alpha and draw_text with a
\* position, leave cursor x, cursor y and row_space unchanged, also when what
\* they draw extends beyond the buffer
C18_CursorKept ==
    (Acted({"draw_rectangle"}) \/ Positioned) =>
        /\ canvas.x = canvas_before.x
        /\ canvas.y = canvas_before.y
        /\ canvas.row_space = canvas_before.row_space

C18_Witness ==
    /\ Acted({"draw_rectangle"})
    /\ canvas_alloc = <<10, 50>>
    /\ LastOp.rect = <<0, 0, 10000, 740>>
    /\ canvas.drawn # canvas_before.drawn
    /\ canvas.x = 25
    /\ canvas.y = 7

(***************************************************************************)
(* create_circular_image as a state machine: one step per pixel of the     *)
(* resized image                                                           *)
(***************************************************************************)
CircleInit ==
    /\ NodesIdle
    /\ RelayIdle
    /\ TargetIdle
    /\ LayoutIdle
    /\ StripIdle
    /\ PasteIdle
    /\ TilerIdle
    /\ RenderIdle
    /\ CanvasIdle
    /\ kpc = "start"
    /\ input_image \in [width : 1..MaxInputSide, height : 1..MaxInputSide,
                        pattern : {"opaque", "mixed"}]
    /\ diameter \in 0..MaxDiameter
    /\ resized_size = <<0, 0>>
    /\ circle_offset = <<0, 0>>
    /\ circle_i = 0
    /\ circular_image = EmptyImage

\* up to the loop: the buffer, the resize and the offsets, whose u32
\* subtraction goes below zero when the resized image is larger than diameter
CircleResize ==
    /\ kpc = "start"
    /\ LET size == circle_resized_size(input_image.width, input_image.height, diameter)
       IN  /\ resized_size' = size
           /\ IF size[1] > diameter \/ size[2] > diameter
              THEN kpc' = "panicked" /\ circle_offset' = circle_offset
              ELSE /\ kpc' = "pixels"
                   /\ circle_offset' = <<(diameter - size[1]) \div 2,
                                         (diameter - size[2]) \div 2>>
    /\ circular_image' = TransparentSquare(diameter)
    /\ UNCHANGED <<input_image, diameter, circle_i, exceptCircle>>

\* one iteration of `for (x, y, pixel) in resized_image.enumerate_pixels()`;
\* put_pixel panics outside the buffer
CirclePixel ==
    /\ kpc = "pixels"
    /\ circle_i < resized_size[1] * resized_size[2]
    /\ LET x == circle_i % resized_size[1]
           y == circle_i \div resized_size[1]
           circle_x == x + circle_offset[1]
           circle_y == y + circle_offset[2]
           center == <<diameter \div 2, diameter \div 2>>
           radius == diameter \div 2
       IN  IF is_point_in_circle(circle_x, circle_y, center, radius)
           THEN IF circle_x < diameter /\ circle_y < diameter
                THEN /\ circular_image' =
                           put_pixel(circular_image, circle_x, circle_y,
                                     resized_pixel(input_image.pattern, x, y))
                     /\ kpc' = kpc
                ELSE circular_image' = circular_image /\ kpc' = "panicked"
           ELSE circular_image' = circular_image /\ kpc' = kpc
    /\ circle_i' = circle_i + 1
    /\ UNCHANGED <<input_image, diameter, resized_size, circle_offset, exceptCircle>>

CircleReturn ==
    /\ kpc = "pixels"
    /\ circle_i = resized_size[1] * resized_size[2]
    /\ kpc' = "done"
    /\ UNCHANGED <<input_image, diameter, resized_size, circle_offset, circle_i,
                   circular_image, exceptCircle>>

CircleNext == CircleResize \/ CirclePixel \/ CircleReturn

SpecCircle == CircleInit /\ [][CircleNext]_vars

\* C19: create_circular_image(input, d) never writes outside its d x d
\* buffer, and in the image it returns every pixel (x, y) with
\* (x - d/2)^2 + (y - d/2)^2 > (d/2)^2 has alpha 0
C19_OutsideCircleTransparent ==
    /\ kpc # "panicked"
    /\ kpc \in {"pixels", "done"} =>
          /\ circular_image.width = diameter
          /\ circular_image.height = diameter
          /\ DOMAIN circular_image.px = Coords(diameter, diameter)
          /\ \A c \in Coords(diameter, diameter) :
                LET dx == c[1] - diameter \div 2
                    dy == c[2] - diameter \div 2
                    r == diameter \div 2
                IN  dx * dx + dy * dy > r * r => circular_image.px[c][4] = 0

C19_Witness ==
    /\ kpc = "done"
    /\ diameter = 5
    /\ input_image = [width |-> 5, height |-> 5, pattern |-> "opaque"]
    /\ circular_image.px[<<0, 0>>][4] = 0
    /\ circular_image.px[<<4, 3>>][4] = 0
    /\ circular_image.px[<<4, 2>>][4] = 255
    /\ circular_image.px[<<2, 2>>][4] = 255

(***************************************************************************)
(* send_qq_message: the four requests of a relay session.  The relay       *)
(* answers a request with code 0 ("ok"), with another code ("code"), or    *)
(* the request or the parsing of its answer fails ("error").               *)
(***************************************************************************)
RelayRequests == <<"verify", "bind", "sendFriendMessage", "release">>

RelayAnswers == [1..4 -> {"ok", "code", "error"}]

\* send_qq_message(mirai, target, client, messages) under the answers of
\* the relay: whether it returned Ok, and whether the relay answered
\* sendFriendMessage with code 0
send_qq_message(answers) ==
    [ok |-> \A i \in 1..4 : answers[i] = "ok",
     sent |-> \A i \in 1..3 : answers[i] = "ok"]

RelayInit ==
    /\ LayoutIdle
    /\ StripIdle
    /\ PasteIdle
    /\ TilerIdle
    /\ RenderIdle
    /\ CanvasIdle
    /\ CircleIdle
    /\ TargetIdle
    /\ NodesIdle
    /\ qpc = "verify"
    /\ relay_answers \in RelayAnswers
    /\ session_key = None
    /\ relay_log = <<>>
    /\ send_result = None

\* the request i and the test of the code of its answer
RelayRequest(i, next) ==
    /\ qpc = RelayRequests[i]
    /\ relay_log' = Append(relay_log, RelayRequests[i])
    /\ IF relay_answers[i] = "ok"
       THEN /\ qpc' = next
            /\ send_result' = IF next = "returned" THEN <<"Ok">> ELSE send_result
       ELSE /\ qpc' = "returned"
            /\ send_result' = <<"Err", RelayRequests[i], relay_answers[i]>>
    /\ UNCHANGED relay_answers
    /\ UNCHANGED exceptRelay

\* POST /verify; session_key = verify_response.session.unwrap()
Verify ==
    /\ RelayRequest(1, "bind")
    /\ session_key' = IF relay_answers[1] = "ok" THEN <<"Some", "session">> ELSE session_key

\* POST /bind
Bind == RelayRequest(2, "sendFriendMessage") /\ UNCHANGED session_key

\* POST /sendFriendMessage
SendFriendMessage == RelayRequest(3, "release") /\ UNCHANGED session_key

\* POST /release
Release == RelayRequest(4, "returned") /\ UNCHANGED session_key

RelayNext == Verify \/ Bind \/ SendFriendMessage \/ Release

SpecRelay == RelayInit /\ [][RelayNext]_vars

\* the steps return what send_qq_message(answers) says
RelayStepsAgree ==
    qpc = "returned" =>
        /\ (send_result = <<"Ok">>) = send_qq_message(relay_answers).ok
        /\ (\E i \in 1..Len(relay_log) :
              relay_log[i] = "sendFriendMessage" /\ relay_answers[3] = "ok")
           = send_qq_message(relay_answers).sent

\* C25: a session obtained by a successful verify is released by a release
\* request before send_qq_message returns, on the success path and on every
\* failure path
C25_SessionReleased ==
    (qpc = "returned" /\ session_key # None) =>
        \E i \in 1..Len(relay_log) : relay_log[i] = "release"

(***************************************************************************)
(* main.rs: main and run_target.  A ledger tree is a function from the     *)
(* recorded dynamic ids to their DbEntry; a task is                        *)
(* [pc, tree, it, resent_entries, response, cards, polls]: the tree it was *)
(* given, the last key its iterator returned, the entries to write back    *)
(* after the resend pass, the cards of the last response, the cards still  *)
(* to handle and the iterations ended.                                     *)
(***************************************************************************)
Uids == {1, 2}

\* TargetConfig: the uid watched and the receiver of the messages
TargetConfig(uid, receiver_qq) == [uid |-> uid, receiver_qq |-> receiver_qq]

\* the configured targets: one target, two targets that watch the same uid
\* for different receivers, two targets that watch different uids
TargetLists ==
    { <<TargetConfig(1, 10)>>,
      <<TargetConfig(1, 10), TargetConfig(1, 20)>>,
      <<TargetConfig(1, 10), TargetConfig(2, 10)>> }

\* the dynamic types run_target handles
SupportedTypes == {1, 2, 4, 4200}

Card(id, type) == [dynamic_id |-> id, type |-> type]

\* response["data"]["cards"], newest first
Responses ==
    { <<Card(1, 2)>>,
      <<Card(2, 4), Card(1, 2)>>,
      <<Card(3, 8), Card(2, 1), Card(1, 2), Card(4, 2)>> }

Reverse(q) == [i \in 1..Len(q) |-> q[Len(q) + 1 - i]]

LatestThreeInOrder(cards) == SubSeq(cards, 1, Min(3, Len(cards)))

\* cards.iter().take(3).rev()
LatestThree(cards) == Reverse(SubSeq(cards, 1, Min(3, Len(cards))))

\* db.open_tree(format!("{}", t.uid)): the tree is named by the uid alone
tree_name(t) == t.uid

\* db.insert(key, entry) on a tree
tree_insert(tree, key, entry) ==
    [k \in DOMAIN tree \cup {key} |-> IF k = key THEN entry ELSE tree[k]]

\* one more in a count of <<task, dynamic id>>
Accepted(sent, p, id) ==
    [m \in DOMAIN sent \cup {<<p, id>>} |->
        IF m = <<p, id>> THEN (IF m \in DOMAIN sent THEN sent[m] + 1 ELSE 1)
        ELSE sent[m]]

\* item["orig"]["type"] of the detail of a forward: dynamic 2 forwards a video
orig_type(dynamic_id) ==
    IF dynamic_id = 2 THEN "DYNAMIC_TYPE_AV" ELSE "DYNAMIC_TYPE_DRAW"

\* Content::from_detail_json returns Ok: a forward is built from its
\* original, and an original of another type than forward, draw, word and
\* live is "不支持的动态类型"
from_detail_json(dynamic_id, type) ==
    type = 1 =>
        orig_type(dynamic_id) \in {"DYNAMIC_TYPE_DRAW", "DYNAMIC_TYPE_WORD",
                                   "DYNAMIC_TYPE_LIVE_RCMD"}

\* create_message_from_dynamic returns Ok: the detail request is answered
\* and the content is built
create_message_from_dynamic(api, dynamic_id, type) ==
    api = "ok" /\ from_detail_json(dynamic_id, type)

AllOk == [i \in 1..4 |-> "ok"]

\* what the detail API and the relay answer during one attempt to send: the
\* detail request fails, or it is answered and at most one of the requests
\* to the relay is not answered with code 0 (no request follows that one)
Attempts ==
    {[api |-> "error", relay |-> AllOk]}
    \cup {[api |-> "ok", relay |-> r] :
            r \in {q \in RelayAnswers : Cardinality({i \in 1..4 : q[i] # "ok"}) <= 1}}

\* the answers there can be: only successful ones once the source API and
\* the relay have recovered
Answering(h) ==
    IF h THEN {[api |-> "ok", relay |-> AllOk]} ELSE Attempts

\* match create_message_from_dynamic(..) { Ok(msg) => match send_qq_message(..) }:
\* whether the Ok(_) arm is taken, and whether the relay accepted the message
send_dynamic(att, dynamic_id, type) ==
    LET created == create_message_from_dynamic(att.api, dynamic_id, type)
        r == send_qq_message(att.relay)
    IN  [ok |-> created /\ r.ok, sent |-> created /\ r.sent]

NewTask(name) ==
    [pc |-> "resend", tree |-> name, it |-> 0, resent_entries |-> <<>>,
     response |-> <<>>, cards |-> <<>>, polls |-> 0]

TargetInit ==
    /\ NodesIdle
    /\ RelayIdle
    /\ LayoutIdle
    /\ StripIdle
    /\ PasteIdle
    /\ TilerIdle
    /\ RenderIdle
    /\ CanvasIdle
    /\ CircleIdle
    /\ target \in TargetLists
    /\ spawned = 0
    /\ db = [u \in Uids |-> <<>>]
    /\ target_set = <<>>
    /\ sent_messages = <<>>
    /\ relay_sent = <<>>
    /\ healthy = FALSE
    /\ tree_readers = [u \in Uids |-> {}]
    /\ tree_writers = [u \in Uids |-> {}]

Running == spawned > 0 /\ \A q \in 1..spawned : target_set[q].pc # "stopped"

Reads(p) == [tree_readers EXCEPT ![target_set[p].tree] = @ \cup {p}]
Writes(p) == [tree_writers EXCEPT ![target_set[p].tree] = @ \cup {p}]

\* one iteration of `for t in target`: open the tree, spawn the task
Spawn ==
    /\ spawned < Len(target)
    /\ spawned = 0 \/ Running
    /\ target_set' = Append(target_set, NewTask(tree_name(target[spawned + 1])))
    /\ spawned' = spawned + 1
    /\ UNCHANGED <<target, db, sent_messages, relay_sent, healthy, tree_readers,
                   tree_writers, exceptTarget>>

\* one `it.next()` of the resend pass and the body of the loop for it
ResendNext(p) ==
    /\ Running
    /\ target_set[p].pc = "resend"
    /\ LET t == target_set[p]
           tree == db[t.tree]
           later == {k \in DOMAIN tree : k > t.it}
       IN  /\ tree_readers' = Reads(p)
           /\ IF later = {}
              THEN /\ target_set' = [target_set EXCEPT ![p].pc = "write"]
                   /\ UNCHANGED <<sent_messages, relay_sent>>
              ELSE LET k == CHOOSE k \in later : \A j \in later : k <= j
                   IN  IF tree[k].sent
                       THEN /\ target_set' = [target_set EXCEPT ![p].it = k]
                            /\ UNCHANGED <<sent_messages, relay_sent>>
                       ELSE \E att \in Answering(healthy) :
                              LET o == send_dynamic(att, k, tree[k].type)
                              IN  /\ target_set' =
                                        [target_set EXCEPT
                                           ![p].it = k,
                                           ![p].resent_entries =
                                               IF o.ok
                                               THEN Append(@, <<k, [tree[k] EXCEPT !.sent = TRUE]>>)
                                               ELSE @]
                                  /\ sent_messages' =
                                        IF o.ok THEN Accepted(sent_messages, p, k)
                                        ELSE sent_messages
                                  /\ relay_sent' =
                                        IF o.sent THEN Accepted(relay_sent, p, k)
                                        ELSE relay_sent
    /\ UNCHANGED <<target, spawned, db, healthy, tree_writers, exceptTarget>>

\* one iteration of `for (k, v) in resent_entries`, and the end of the loop
ResendWrite(p) ==
    /\ Running
    /\ target_set[p].pc = "write"
    /\ LET t == target_set[p]
       IN  IF t.resent_entries = <<>>
           THEN /\ target_set' = [target_set EXCEPT ![p].pc = "request"]
                /\ UNCHANGED <<db, tree_writers>>
           ELSE /\ db' = [db EXCEPT ![t.tree] =
                            tree_insert(@, Head(t.resent_entries)[1],
                                        Head(t.resent_entries)[2])]
                /\ tree_writers' = Writes(p)
                /\ target_set' = [target_set EXCEPT ![p].resent_entries = Tail(@)]
    /\ UNCHANGED <<target, spawned, sent_messages, relay_sent, healthy, tree_readers,
                   exceptTarget>>

\* the start of the next iteration of `loop`
NextLoop(t) ==
    [t EXCEPT !.pc = "resend", !.it = 0, !.resent_entries = <<>>,
              !.response = <<>>, !.polls = IF @ < MaxPolls THEN @ + 1 ELSE @]

\* the request or the parsing of its answer fails: run_target returns Err,
\* main returns at `res??` and the other tasks end with it
RequestFails(p) ==
    /\ Running
    /\ ~healthy
    /\ target_set[p].pc = "request"
    /\ target_set[p].polls < MaxPolls
    /\ target_set' = [q \in 1..spawned |-> [target_set[q] EXCEPT !.pc = "stopped"]]
    /\ UNCHANGED <<target, spawned, db, sent_messages, relay_sent, healthy,
                   tree_readers, tree_writers, exceptTarget>>

\* code != 0 or no cards: `continue`
RequestRejected(p) ==
    /\ Running
    /\ ~healthy
    /\ target_set[p].pc = "request"
    /\ target_set[p].polls < MaxPolls
    /\ target_set' = [target_set EXCEPT ![p] = NextLoop(@)]
    /\ UNCHANGED <<target, spawned, db, sent_messages, relay_sent, healthy,
                   tree_readers, tree_writers, exceptTarget>>

RequestCards(p) ==
    /\ Running
    /\ target_set[p].pc = "request"
    /\ target_set[p].polls < MaxPolls \/ healthy
    /\ \E cards \in Responses :
          target_set' = [target_set EXCEPT ![p].pc = "card",
                                           ![p].response = cards,
                                           ![p].cards = LatestThree(cards)]
    /\ UNCHANGED <<target, spawned, db, sent_messages, relay_sent, healthy,
                   tree_readers, tree_writers, exceptTarget>>

\* the head of `for card in ...`: the type test and db.contains_key
CardCheck(p) ==
    /\ Running
    /\ target_set[p].pc = "card"
    /\ LET t == target_set[p]
       IN  IF t.cards = <<>>
           THEN /\ target_set' = [target_set EXCEPT ![p].pc = "sleep"]
                /\ tree_readers' = tree_readers
           ELSE IF Head(t.cards).type \notin SupportedTypes
           THEN /\ target_set' = [target_set EXCEPT ![p].cards = Tail(@)]
                /\ tree_readers' = tree_readers
           ELSE /\ tree_readers' = Reads(p)
                /\ IF Head(t.cards).dynamic_id \in DOMAIN db[t.tree]
                   THEN target_set' = [target_set EXCEPT ![p].cards = Tail(@)]
                   ELSE target_set' = [target_set EXCEPT ![p].pc = "insert"]
    /\ UNCHANGED <<target, spawned, db, sent_messages, relay_sent, healthy,
                   tree_writers, exceptTarget>>

\* db.insert(&dynamic_key, entry) with sent: false
CardInsert(p) ==
    /\ Running
    /\ target_set[p].pc = "insert"
    /\ LET t == target_set[p]
           card == Head(t.cards)
       IN  db' = [db EXCEPT ![t.tree] =
                    tree_insert(@, card.dynamic_id, [sent |-> FALSE, type |-> card.type])]
    /\ tree_writers' = Writes(p)
    /\ target_set' = [target_set EXCEPT ![p].pc = "send"]
    /\ UNCHANGED <<target, spawned, sent_messages, relay_sent, healthy, tree_readers,
                   exceptTarget>>

\* create_message_from_dynamic and send_qq_message
CardSend(p) ==
    /\ Running
    /\ target_set[p].pc = "send"
    /\ \E att \in Answering(healthy) :
          LET card == Head(target_set[p].cards)
              o == send_dynamic(att, card.dynamic_id, card.type)
          IN  /\ sent_messages' =
                    IF o.ok THEN Accepted(sent_messages, p, card.dynamic_id)
                    ELSE sent_messages
              /\ relay_sent' =
                    IF o.sent THEN Accepted(relay_sent, p, card.dynamic_id)
                    ELSE relay_sent
              /\ target_set' =
                    IF o.ok THEN [target_set EXCEPT ![p].pc = "mark"]
                    ELSE [target_set EXCEPT ![p].pc = "card", ![p].cards = Tail(@)]
    /\ UNCHANGED <<target, spawned, db, healthy, tree_readers, tree_writers,
                   exceptTarget>>

\* entry.sent = true; db.insert(&dynamic_key, entry)
CardMark(p) ==
    /\ Running
    /\ target_set[p].pc = "mark"
    /\ LET t == target_set[p]
           card == Head(t.cards)
       IN  db' = [db EXCEPT ![t.tree] =
                    tree_insert(@, card.dynamic_id, [sent |-> TRUE, type |-> card.type])]
    /\ tree_writers' = Writes(p)
    /\ target_set' = [target_set EXCEPT ![p].pc = "card", ![p].cards = Tail(@)]
    /\ UNCHANGED <<target, spawned, sent_messages, relay_sent, healthy, tree_readers,
                   exceptTarget>>

\* tokio::time::sleep(...).await
Sleep(p) ==
    /\ Running
    /\ target_set[p].pc = "sleep"
    /\ target_set' = [target_set EXCEPT ![p] = NextLoop(@)]
    /\ UNCHANGED <<target, spawned, db, sent_messages, relay_sent, healthy,
                   tree_readers, tree_writers, exceptTarget>>

TargetNext ==
    \/ Spawn
    \/ \E p \in 1..spawned : ResendNext(p)
    \/ \E p \in 1..spawned : ResendWrite(p)
    \/ \E p \in 1..spawned : RequestFails(p)
    \/ \E p \in 1..spawned : RequestRejected(p)
    \/ \E p \in 1..spawned : RequestCards(p)
    \/ \E p \in 1..spawned : CardCheck(p)
    \/ \E p \in 1..spawned : CardInsert(p)
    \/ \E p \in 1..spawned : CardSend(p)
    \/ \E p \in 1..spawned : CardMark(p)
    \/ \E p \in 1..spawned : Sleep(p)

SpecTargets == TargetInit /\ [][TargetNext]_vars

(***************************************************************************)
(* One run_target task until and after the source API and the relay have   *)
(* recovered.  MaxPolls bounds the iterations before the recovery; after   *)
(* it every request is answered successfully and the loop goes on for      *)
(* ever.  tokio runs a task that can take a step, so the steps of a task   *)
(* are weakly fair.                                                        *)
(***************************************************************************)
PipelineInit == TargetInit /\ Len(target) = 1

\* from now on the source API and the relay answer every request successfully
Recover ==
    /\ ~healthy
    /\ healthy' = TRUE
    /\ UNCHANGED <<target, spawned, db, target_set, sent_messages, relay_sent,
                   tree_readers, tree_writers, exceptTarget>>

TaskStep(p) ==
    /\ p <= spawned
    /\ \/ ResendNext(p) \/ ResendWrite(p) \/ RequestFails(p) \/ RequestRejected(p)
       \/ RequestCards(p) \/ CardCheck(p) \/ CardInsert(p) \/ CardSend(p)
       \/ CardMark(p) \/ Sleep(p)

PipelineNext == TargetNext \/ Recover

SpecPipeline ==
    /\ PipelineInit
    /\ [][PipelineNext]_vars
    /\ WF_vars(Spawn)
    /\ WF_vars(TaskStep(1))

\* C20: the run_target tasks share no ledger: no tree written by one task is
\* read or written by another task, whatever the configured targets are
C20_NoSharedLedger ==
    spawned > 0 =>
        \A u \in Uids : \A p \in tree_writers[u] :
            \A q \in tree_readers[u] \cup tree_writers[u] : p = q

\* the tasks spawned and their ledgers
Tasks == 1..spawned
LedgerOf(p) == db[target_set[p].tree]

\* C22: over a run of a target's pipeline the relay accepts at most one
\* sendFriendMessage per dynamic id: once it has answered the message of a
\* dynamic with code 0, no resend pass and no later iteration sends it again
C22_SentAtMostOnce ==
    \A m \in DOMAIN relay_sent : relay_sent[m] <= 1

\* an entry is in the ledger before a send is attempted for it, and it has
\* sent = true only after send_qq_message returned Ok for its dynamic
LedgerRecordsSends ==
    /\ \A p \in Tasks :
         target_set[p].pc \in {"send", "mark"} =>
             Head(target_set[p].cards).dynamic_id \in DOMAIN LedgerOf(p)
    /\ \A u \in Uids : \A k \in DOMAIN db[u] :
         db[u][k].sent =>
             \E p \in Tasks : target_set[p].tree = u /\ <<p, k>> \in DOMAIN sent_messages

\* an entry is first written with sent = false, is never removed, and once
\* sent = true stays so
LedgerStep ==
    \A u \in Uids :
        /\ \A k \in DOMAIN db'[u] : k \notin DOMAIN db[u] => ~db'[u][k].sent
        /\ \A k \in DOMAIN db[u] :
             k \in DOMAIN db'[u] /\ (db[u][k].sent => db'[u][k].sent)

\* C23: in a target's ledger an entry is written with sent = false before
\* the first send attempt and becomes sent = true only after send_qq_message
\* returned Ok for that dynamic; an entry with sent = true never becomes
\* false again, and no entry is ever removed
C23_LedgerMonotone == [](spawned > 0 => LedgerRecordsSends) /\ [][LedgerStep]_vars

\* the dynamic ids of the responses
DynamicIds == 1..4

\* C24: every iteration starts with a resend pass over the unsent entries,
\* so that, once the relay and the source API answer successfully, every
\* recorded dynamic of a running pipeline eventually has sent = true
C24_EventuallySent ==
    \A k \in DynamicIds :
        (/\ healthy
         /\ spawned = 1
         /\ target_set[1].pc # "stopped"
         /\ k \in DOMAIN LedgerOf(1))
        ~> (spawned = 1 /\ k \in DOMAIN LedgerOf(1) /\ LedgerOf(1)[k].sent)

\* the first three cards of a response, the last of them first
FirstThreeReversed(response) ==
    LET n == IF Len(response) < 3 THEN Len(response) ELSE 3
    IN  [i \in 1..n |-> response[n + 1 - i]]

\* the cards still to handle are the end of the first three cards of the
\* response, taken in reverse order
HandlesFirstThree ==
    \A p \in Tasks :
        LET t == target_set[p]
            three == FirstThreeReversed(t.response)
        IN  t.pc \in {"card", "insert", "send", "mark"} =>
                \E n \in 0..Len(three) : t.cards = SubSeq(three, n + 1, Len(three))

\* the step of a task at a card that is in the ledger or whose type is not
\* 1, 2, 4 or 4200 goes on to the next card and records and sends nothing
SkipsStep ==
    \A p \in Tasks :
        LET t == target_set[p]
        IN  (/\ t.pc = "card"
             /\ t.cards # <<>>
             /\ \/ Head(t.cards).type \notin {1, 2, 4, 4200}
                \/ Head(t.cards).dynamic_id \in DOMAIN LedgerOf(p)
             /\ target_set'[p] # t)
            => /\ target_set'[p] = [t EXCEPT !.cards = Tail(t.cards)]
               /\ db' = db
               /\ sent_messages' = sent_messages
               /\ relay_sent' = relay_sent

\* C26: in one iteration only the first three cards of the response are
\* considered, in reverse of the order of the response, and a card whose
\* dynamic id is in the ledger or whose type is not 1, 2, 4 or 4200 is
\* skipped without being recorded or sent
C26_LatestThreeReversed == []HandlesFirstThree /\ [][SkipsStep]_vars

\* the response of four cards is handled: the third and the second card are
\* recorded, the first is skipped for its type, the fourth was not considered
C26_Witness ==
    /\ spawned = 1
    /\ target_set[1].pc = "sleep"
    /\ Len(target_set[1].response) = 4
    /\ DOMAIN LedgerOf(1) = {1, 2}
    /\ target_set[1].polls = 0

(***************************************************************************)
(* build_text_nodes: the rich text nodes of a dynamic, one step per node   *)
(***************************************************************************)
\* the raw nodes of a call are at most this many
MaxRawNodes == 3

NodeStrings == {"a", "b"}

\* node.get("text").map(Value::as_str) is Some(Some(text))
has_text(node) == node.text \in NodeStrings

\* download_emoji(emoji_node): the image, or the error that ended it
download_emoji(emoji_node) ==
    IF emoji_node.icon_url = "url"
    THEN IF emoji_node.fetch = "image"
         THEN [ok |-> TRUE, img |-> emoji_node.icon_url]
         ELSE [ok |-> FALSE, err |-> emoji_node.fetch]
    ELSE [ok |-> FALSE, err |-> "No emoji icon url found"]

\* what the arms that fall back to the text of the node push
text_or_nothing(node) ==
    IF has_text(node) THEN <<[kind |-> "Text", text |-> node.text]>> ELSE <<>>

emoji_arm_dropping(node) ==
    LET r == download_emoji(node)
    IN  IF r.ok THEN <<[kind |-> "Emoji", img |-> r.img]>> ELSE <<>>

\* the "RICH_TEXT_NODE_TYPE_EMOJI" arm
emoji_arm(node) ==
    LET r == download_emoji(node)
    IN  IF r.ok THEN <<[kind |-> "Emoji", img |-> r.img]>> ELSE text_or_nothing(node)

\* match type_ { ... }: what one node pushes to res
match_type(node) ==
    CASE node.type = "RICH_TEXT_NODE_TYPE_EMOJI" -> emoji_arm(node)
      [] node.type = "RICH_TEXT_NODE_TYPE_WEB" -> <<[kind |-> "Web"]>>
      [] node.type = "RICH_TEXT_NODE_TYPE_BV" -> <<[kind |-> "Bv"]>>
      [] node.type = "RICH_TEXT_NODE_TYPE_LOTTERY" -> <<[kind |-> "Lottery"]>>
      [] node.type = "RICH_TEXT_NODE_TYPE_VOTE" -> <<[kind |-> "Vote"]>>
      [] node.type = "RICH_TEXT_NODE_TYPE_GOODS" -> <<[kind |-> "Goods"]>>
      [] OTHER -> text_or_nothing(node)

RawNode(type, text, icon_url, fetch) ==
    [type |-> type, text |-> text, icon_url |-> icon_url, fetch |-> fetch]

\* the nodes of the source API: emoji nodes with and without a text and an
\* icon url, whose fetch succeeds, fails at the request or at the decoding;
\* the five icon nodes; text nodes and nodes of other types; a node whose
\* text is not a string; a node without a type
EmojiRawNodes ==
    { RawNode("RICH_TEXT_NODE_TYPE_EMOJI", t, "url", f) :
        t \in {"absent", "a"}, f \in {"image", "request failed", "decode failed"} }
    \cup { RawNode("RICH_TEXT_NODE_TYPE_EMOJI", t, "absent", "none") :
             t \in {"absent", "number", "b"} }

OtherRawNodes ==
    { RawNode(ty, "a", "absent", "none") :
        ty \in {"RICH_TEXT_NODE_TYPE_WEB", "RICH_TEXT_NODE_TYPE_BV",
                "RICH_TEXT_NODE_TYPE_LOTTERY", "RICH_TEXT_NODE_TYPE_VOTE",
                "RICH_TEXT_NODE_TYPE_GOODS"} }
    \cup { RawNode("RICH_TEXT_NODE_TYPE_TEXT", t, "absent", "none") :
             t \in {"a", "b", "number"} }
    \cup { RawNode("RICH_TEXT_NODE_TYPE_AT", "absent", "absent", "none"),
           RawNode("missing", "a", "absent", "none") }

RawNodes == EmojiRawNodes \cup OtherRawNodes

Titles == {None, <<"Some", "b">>}

NodesInit ==
    /\ LayoutIdle
    /\ StripIdle
    /\ PasteIdle
    /\ TilerIdle
    /\ RenderIdle
    /\ CanvasIdle
    /\ CircleIdle
    /\ TargetIdle
    /\ RelayIdle
    /\ bpc = "start"
    /\ title \in Titles
    /\ raw_text_nodes \in SeqsUpTo(RawNodes, MaxRawNodes)
    /\ node_i = 0
    /\ res = <<>>

\* if let Some(title) = title { res.push(...) }
BuildTitle ==
    /\ bpc = "start"
    /\ bpc' = "nodes"
    /\ res' = IF title = None THEN res
              ELSE Append(res, [kind |-> "Text", text |-> title[2]])
    /\ UNCHANGED <<title, raw_text_nodes, node_i>>
    /\ UNCHANGED exceptNodes

\* one iteration of `for node in raw_text_nodes`
BuildNode ==
    /\ bpc = "nodes"
    /\ node_i < Len(raw_text_nodes)
    /\ raw_text_nodes[node_i + 1].type # "missing"
    /\ res' = res \o match_type(raw_text_nodes[node_i + 1])
    /\ node_i' = node_i + 1
    /\ UNCHANGED <<bpc, title, raw_text_nodes>>
    /\ UNCHANGED exceptNodes

\* node.get("type").unwrap() on a node without a type
BuildUnwrapPanics ==
    /\ bpc = "nodes"
    /\ node_i < Len(raw_text_nodes)
    /\ raw_text_nodes[node_i + 1].type = "missing"
    /\ bpc' = "panicked"
    /\ UNCHANGED <<title, raw_text_nodes, node_i, res>>
    /\ UNCHANGED exceptNodes

\* Ok(res)
BuildReturn ==
    /\ bpc = "nodes"
    /\ node_i = Len(raw_text_nodes)
    /\ bpc' = "done"
    /\ UNCHANGED <<title, raw_text_nodes, node_i, res>>
    /\ UNCHANGED exceptNodes

NodesNext == BuildTitle \/ BuildNode \/ BuildUnwrapPanics \/ BuildReturn

SpecNodes == NodesInit /\ [][NodesNext]_vars

EmojiFetchFailed(node) ==
    /\ node.type = "RICH_TEXT_NODE_TYPE_EMOJI"
    /\ ~(node.icon_url = "url" /\ node.fetch = "image")

\* the node a raw node stands for when nothing fails
NodeKindOf(node) ==
    CASE node.type = "RICH_TEXT_NODE_TYPE_EMOJI" -> "Emoji"
      [] node.type = "RICH_TEXT_NODE_TYPE_WEB" -> "Web"
      [] node.type = "RICH_TEXT_NODE_TYPE_BV" -> "Bv"
      [] node.type = "RICH_TEXT_NODE_TYPE_LOTTERY" -> "Lottery"
      [] node.type = "RICH_TEXT_NODE_TYPE_VOTE" -> "Vote"
      [] node.type = "RICH_TEXT_NODE_TYPE_GOODS" -> "Goods"
      [] OTHER -> "Text"

\* whether a raw node has a node in the result
Produces(node) ==
    (NodeKindOf(node) = "Text" \/ EmojiFetchFailed(node)) => has_text(node)

\* the place in res of the node of raw_text_nodes[i]
PlaceOf(i) ==
    (IF title = None THEN 0 ELSE 1)
    + Cardinality({j \in 1..i : Produces(raw_text_nodes[j])})

\* C21: build_text_nodes does not fail because an emoji fetch failed: it
\* returns Ok(res), where the emoji node whose fetch failed is a Text node
\* of the literal text of the node when the node has one and is left out
\* otherwise, and every other node is in res, in the order of the raw nodes
C21_EmojiFailureKeepsOthers ==
    /\ bpc = "panicked" => raw_text_nodes[node_i + 1].type = "missing"
    /\ bpc = "done" =>
        /\ Len(res) = PlaceOf(Len(raw_text_nodes))
        /\ \A i \in 1..Len(raw_text_nodes) :
             LET node == raw_text_nodes[i]
             IN  Produces(node) =>
                   /\ res[PlaceOf(i)].kind =
                        IF EmojiFetchFailed(node) THEN "Text" ELSE NodeKindOf(node)
                   /\ res[PlaceOf(i)].kind = "Text" => res[PlaceOf(i)].text = node.text

\* a failed emoji with a text and one without, between two other nodes
C21_Witness ==
    /\ bpc = "done"
    /\ Len(raw_text_nodes) = 3
    /\ \E i, j \in 1..3 :
         /\ EmojiFetchFailed(raw_text_nodes[i]) /\ has_text(raw_text_nodes[i])
         /\ EmojiFetchFailed(raw_text_nodes[j]) /\ ~has_text(raw_text_nodes[j])
    /\ raw_text_nodes[3].type = "RICH_TEXT_NODE_TYPE_WEB"
    /\ Len(res) = 3

====
